---- MODULE Spec2Model ----
(***************************************************************************)
(* LLMbench: annotation store (useAnnotations), annotate gutter, and the   *)
(* word diff (computeWordDiff over the diff package's diffWords).          *)
(*                                                                         *)
(* Encoding of JavaScript values:                                          *)
(*   - line numbers are integers >= 1; an absent optional number           *)
(*     (undefined) and null are both written 0, which is also the only     *)
(*     falsy number, so `x ? a : b` and `x ?? y` agree on every value used *)
(*   - annotation ids (crypto.randomUUID()) are the integers 1, 2, ... in  *)
(*     the order they are drawn; a null id is 0                            *)
(*   - strings are TLA+ strings, texts for the diff are sequences of       *)
(*     one-character strings                                               *)
(***************************************************************************)
EXTENDS Integers, Sequences, FiniteSets, TLC

\* ------------------------------------------------------------------ bounds
MaxLine == 2
MaxUuid == 2

\* ------------------------------------------------------------- JS constants
Null == 0
Undefined == 0

Panels == {"A", "B"}
Other(p) == IF p = "A" THEN "B" ELSE "A"
OutputId(p) == IF p = "A" THEN "panel-A" ELSE "panel-B"

ANNOTATION_TYPES ==
  <<"observation", "question", "metaphor", "pattern", "context", "critique">>

\* the (type, content) pairs the user submits in the model
SubmitInputs == {<<"pattern", "c1">>, <<"critique", "c2">>}
Lines == 1..MaxLine

VARIABLES
  annotations,   \* [Panels -> Seq(LineAnnotation)]  useAnnotations state, one hook per panel
  editState,     \* [Panels -> InlineEditState]
  uuidCount,     \* number of ids drawn from crypto.randomUUID() so far
  target,        \* history: per panel, the arguments of the start call the edit state came from
  lastOp,        \* history: the hook operation that produced this state
  textA,         \* computeWordDiff: its two arguments
  textB,
  diffResult,    \* computeWordDiff: <<>> before the call, then <<its return value>>
  scrollTop,     \* [Panels -> Nat]  scrollTop of the two diff scroll containers
  scrollHeight,  \* [Panels -> Nat]  their scrollHeight
  diffSyncing,   \* diffSyncing.current
  pending,       \* [Panels -> "none" | "user" | "sync"]  scroll event waiting on the element
  running,       \* the panel whose scroll handler is between its write and its flag reset, or "-"
  snapMode,      \* how the browser stores a fractional scrollTop: "round" or "trunc"
  userScrolls,   \* number of user scrolls so far
  lastScroll,    \* history: the last scroll step and the last user scroll
  prompt,        \* Home: the prompt input
  isLoading,     \* usePromptDispatch state.isLoading
  result,        \* [Panels -> PanelResult]  usePromptDispatch state.resultA / resultB
  inflight,      \* number of /api/generate requests not yet answered
  sent,          \* the prompt argument of each dispatch call not yet answered
  dispatchPrompt, \* usePromptDispatch state.prompt: <<>> for null, else <<the prompt>>
  expected,      \* history: <<>> after a send, else <<the results handleLoad / handleNew set>>
  bodyEl,        \* [Panels -> the DOM node that is the body of AnnotatedPanelDisplay]
  nextEl,        \* number of body DOM nodes created so far
  listeners,     \* the DOM nodes that have a scroll listener of the scroll-sync effect
  effectEls,     \* <<>> or <<elA, elB>> of the effect run whose cleanup is pending
  diffKept,      \* history: "send" / "load" when that happened since showDiff last changed
  showDiff,      \* Home: showDiff
  comparisonId,  \* Home: comparisonId (Null or an id)
  comparisons,   \* useLocalStorage: the saved comparisons, newest first
  diffMemo,      \* Home: diffResult as last rendered: <<>> for null, else <<the results diffed>>
  pdfExport,     \* <<>> before any PDF export, else <<the diffMemo given to exportAsPDF>>
  pdfInput,      \* exportAsPDF: its arguments (comparison, diffData), by what the layout reads
  pdfDoc,        \* exportAsPDF: <<>> before the call, then <<its position and locals>>
  textInput,     \* exportAsText: <<>> or <<its argument, a SavedComparison>>
  textLines,     \* exportAsText: <<>> before the call, then <<the lines array it joins>>
  stored,        \* handleLoad: <<>> or <<its argument, a comparison parsed from localStorage>>
  loaded,        \* <<>> before that handleLoad, then <<the state it set and what threw since>>
  settled,       \* fanOutGenerate: [Panels -> the outcome of generateAIResponse, or pending]
  fanOut,        \* fanOutGenerate: <<>> while it awaits, then <<how its promise settled>>
  lastStore,     \* history: the last saveComparison / deleteComparison call and the list before it
  badgeInput,    \* <<>> or <<an annotation and the theme it is shown in>>
  badges,        \* <<>>, then <<its badge on screen, in the text export and in the PDF>>
  tripInput,     \* <<>> or <<a PanelResult | null, the argument of panelResultToOutput>>
  tripOutput,    \* <<>>, then <<the ComparisonOutput | null it returned>>
  tripBack       \* <<>>, then <<what outputToPanelResult returned for that output>>

annVars == <<annotations, editState, uuidCount, target, lastOp>>
diffVars == <<textA, textB, diffResult>>
scrollVars ==
  <<scrollTop, scrollHeight, diffSyncing, pending, running, snapMode, userScrolls, lastScroll>>
\* what the page handlers other than send, load and new leave alone
sessionVars == <<sent, dispatchPrompt, expected>>
\* the rendered panel bodies and the scroll-sync effect
domVars == <<bodyEl, nextEl, listeners, effectEls, diffKept>>
pageVars ==
  <<prompt, isLoading, result, inflight, showDiff, comparisonId, comparisons, diffMemo,
    pdfExport, sessionVars, domVars>>
pdfVars == <<pdfInput, pdfDoc>>
textVars == <<textInput, textLines>>
\* the state of the functions that are checked on their own
loadVars == <<stored, loaded>>
fanVars == <<settled, fanOut>>
storeVars == <<lastStore>>
badgeVars == <<badgeInput, badges>>
tripVars == <<tripInput, tripOutput, tripBack>>
auxVars == <<textVars, loadVars, fanVars, storeVars, badgeVars, tripVars>>
nonAnnVars == <<diffVars, scrollVars, pageVars, pdfVars, auxVars>>
nonDiffVars == <<annVars, scrollVars, pageVars, pdfVars, auxVars>>
nonScrollVars == <<annVars, diffVars, pageVars, pdfVars, auxVars>>
nonPageVars == <<diffVars, scrollVars, pdfVars, auxVars>>
nonPdfVars == <<annVars, diffVars, scrollVars, pageVars, auxVars>>
appVars == <<annVars, diffVars, scrollVars, pageVars, pdfVars>>
nonTextVars == <<appVars, loadVars, fanVars, storeVars, badgeVars, tripVars>>
nonLoadVars == <<appVars, textVars, fanVars, storeVars, badgeVars, tripVars>>
nonFanVars == <<appVars, textVars, loadVars, storeVars, badgeVars, tripVars>>
nonBadgeVars == <<appVars, textVars, loadVars, fanVars, storeVars, tripVars>>
nonTripVars == <<appVars, textVars, loadVars, fanVars, storeVars, badgeVars>>
\* all but the saved comparisons of useLocalStorage
nonStoreVars ==
  <<annVars, diffVars, scrollVars, pdfVars, textVars, loadVars, fanVars, prompt, isLoading,
    result, inflight, showDiff, comparisonId, diffMemo, pdfExport, sessionVars, domVars,
    badgeVars, tripVars>>
vars == <<annVars, diffVars, scrollVars, pageVars, pdfVars, auxVars>>

\* ------------------------------------------------------- useAnnotations state
NoEdit ==
  [lineNumber |-> Null, startLineNumber |-> Undefined, annotationId |-> Null,
   initialType |-> "observation", initialContent |-> ""]

NoTarget == <<"none", 0, 0>>

NoOp == [op |-> "init", panel |-> "-", mode |-> "-", prev |-> "-"]

Op(name, p, mode, prev) == [op |-> name, panel |-> p, mode |-> mode, prev |-> prev]

Ids(anns) == {anns[i].id : i \in 1..Len(anns)}

\* annotations.find((a) => a.id === id): index of the first match, 0 when none
FindIndex(anns, id) ==
  IF \E i \in 1..Len(anns) : anns[i].id = id
    THEN CHOOSE i \in 1..Len(anns) :
           anns[i].id = id /\ \A j \in 1..(i - 1) : anns[j].id # id
    ELSE 0

\* mutant: the updated annotation is rebuilt without its end line
MapUpdateDropsRange(anns, id, type, content) ==
  [i \in 1..Len(anns) |->
     IF anns[i].id = id
       THEN [anns[i] EXCEPT !.type = type, !.content = content,
                            !.endLineNumber = Undefined]
       ELSE anns[i]]

\* mutant: an id that is not found is inserted (upsert)
MapUpdateUpsert(anns, id, type, content) ==
  IF \E i \in 1..Len(anns) : anns[i].id = id
    THEN [i \in 1..Len(anns) |->
            IF anns[i].id = id
              THEN [anns[i] EXCEPT !.type = type, !.content = content]
              ELSE anns[i]]
    ELSE Append(anns, [id |-> id, outputId |-> "", lineNumber |-> 1,
                       endLineNumber |-> Undefined, lineContent |-> "",
                       type |-> type, content |-> content, createdAt |-> 0])

\* prev.map((a) => a.id === id ? { ...a, type, content } : a)
MapUpdate(anns, id, type, content) ==
  [i \in 1..Len(anns) |->
     IF anns[i].id = id
       THEN [anns[i] EXCEPT !.type = type, !.content = content]
       ELSE anns[i]]

\* prev.filter((a) => a.id !== id)
FilterOut(anns, id) == SelectSeq(anns, LAMBDA a : a.id # id)

\* mutant: the new annotation is anchored at the display line only
NewAnnotationDisplayLine(p, es, type, content, uuid, now) ==
  [id |-> uuid,
   outputId |-> OutputId(p),
   lineNumber |-> es.lineNumber,
   endLineNumber |-> Undefined,
   lineContent |-> "",
   type |-> type,
   content |-> content,
   createdAt |-> now]

\* the object literal of submitAnnotation's create branch
NewAnnotation(p, es, type, content, uuid, now) ==
  [id |-> uuid,
   outputId |-> OutputId(p),
   lineNumber |-> IF es.startLineNumber # Undefined THEN es.startLineNumber ELSE es.lineNumber,
   endLineNumber |-> IF es.startLineNumber # Undefined THEN es.lineNumber ELSE Undefined,
   lineContent |-> "",
   type |-> type,
   content |-> content,
   createdAt |-> now]

\* the edit state startAnnotation(startLine, endLine?) sets
StartEditState(startLine, endLine) ==
  [lineNumber |-> IF endLine # Undefined THEN endLine ELSE startLine,
   startLineNumber |-> IF endLine # Undefined THEN startLine ELSE Undefined,
   annotationId |-> Null,
   initialType |-> "observation",
   initialContent |-> ""]

\* mutant: the editor opens with the default type instead of the annotation's
EditEditStateDefaultType(ann) ==
  [lineNumber |-> IF ann.endLineNumber # Undefined THEN ann.endLineNumber ELSE ann.lineNumber,
   startLineNumber |-> IF ann.endLineNumber # Undefined THEN ann.lineNumber ELSE Undefined,
   annotationId |-> ann.id,
   initialType |-> "observation",
   initialContent |-> ann.content]

\* the edit state startEditAnnotation(id) sets for the annotation it found
EditEditState(ann) ==
  [lineNumber |-> IF ann.endLineNumber # Undefined THEN ann.endLineNumber ELSE ann.lineNumber,
   startLineNumber |-> IF ann.endLineNumber # Undefined THEN ann.lineNumber ELSE Undefined,
   annotationId |-> ann.id,
   initialType |-> ann.type,
   initialContent |-> ann.content]

DiffIdle ==
  /\ textA = <<>>
  /\ textB = <<>>
  /\ diffResult = <<>>

AnnIdle ==
  /\ annotations = [p \in Panels |-> <<>>]
  /\ editState = [p \in Panels |-> NoEdit]
  /\ uuidCount = 0
  /\ target = [p \in Panels |-> NoTarget]
  /\ lastOp = NoOp

\* the diff scroll containers as mounted: at the top, nothing pending
ScrollIdle ==
  /\ scrollTop = [p \in Panels |-> 0]
  /\ scrollHeight = [p \in Panels |-> 0]
  /\ diffSyncing = FALSE
  /\ pending = [p \in Panels |-> "none"]
  /\ running = "-"
  /\ snapMode = "round"
  /\ userScrolls = 0
  /\ lastScroll = [op |-> "init", panel |-> "-", echo |-> FALSE, user |-> <<"-", 0>>]

\* PanelResult | null and ComparisonOutput | null; provenance is left out
NullResult == [kind |-> "null"]
TextResult(t) == [kind |-> "text", text |-> t]
ErrorResult(m) == [kind |-> "error", error |-> m]
NullOutput == [kind |-> "null"]
\* the value of an absent error field
NoError == "undefined"

\* Home and usePromptDispatch after construction
PageIdle ==
  /\ prompt = ""
  /\ isLoading = FALSE
  /\ result = [p \in Panels |-> NullResult]
  /\ inflight = 0
  /\ sent = <<>>
  /\ dispatchPrompt = <<>>
  /\ expected = <<>>
  /\ bodyEl = [p \in Panels |-> IF p = "A" THEN 1 ELSE 2]
  /\ nextEl = 2
  /\ listeners = {}
  /\ effectEls = <<>>
  /\ diffKept = "none"
  /\ showDiff = FALSE
  /\ comparisonId = Null
  /\ comparisons = <<>>
  /\ diffMemo = <<>>
  /\ pdfExport = <<>>

\* exportAsPDF not called
PdfIdle ==
  /\ pdfInput = <<>>
  /\ pdfDoc = <<>>

\* exportAsText not called
TextIdle ==
  /\ textInput = <<>>
  /\ textLines = <<>>

\* no comparison parsed from localStorage was loaded
LoadIdle ==
  /\ stored = <<>>
  /\ loaded = <<>>

\* fanOutGenerate called, both provider calls pending
Pending == [status |-> "pending"]
FanIdle ==
  /\ settled = [p \in Panels |-> Pending]
  /\ fanOut = <<>>

\* useLocalStorage used by the page only
NoStore == [op |-> "none"]
StoreIdle == lastStore = NoStore

\* no annotation badge drawn
BadgeIdle ==
  /\ badgeInput = <<>>
  /\ badges = <<>>

\* panelResultToOutput / outputToPanelResult not called on their own
TripIdle ==
  /\ tripInput = <<>>
  /\ tripOutput = <<>>
  /\ tripBack = <<>>

AuxIdle == TextIdle /\ LoadIdle /\ FanIdle /\ StoreIdle /\ BadgeIdle /\ TripIdle

Init == AnnIdle /\ DiffIdle /\ ScrollIdle /\ PageIdle /\ PdfIdle /\ AuxIdle

\* ------------------------------------------------------ useAnnotations actions
\* which of the three edit states a panel is in
EditKind(p) ==
  IF editState[p].annotationId # Null THEN "editing"
  ELSE IF editState[p].lineNumber # Null THEN "creating"
  ELSE "none"

\* mutant: the new pending line is merged into the previous edit state, which
\* keeps the id being edited
StartAnnotationKeepsId(p, startLine, endLine) ==
  /\ editState' = [editState EXCEPT
                     ![p] = [StartEditState(startLine, endLine) EXCEPT
                               !.annotationId = editState[p].annotationId]]
  /\ target' = [target EXCEPT ![p] = <<"create", startLine, endLine>>]
  /\ lastOp' = Op("startAnnotation", p, "-", EditKind(p))
  /\ UNCHANGED <<annotations, uuidCount, nonAnnVars>>

StartAnnotation(p, startLine, endLine) ==
  /\ editState' = [editState EXCEPT ![p] = StartEditState(startLine, endLine)]
  /\ target' = [target EXCEPT ![p] = <<"create", startLine, endLine>>]
  /\ lastOp' = Op("startAnnotation", p, "-", EditKind(p))
  /\ UNCHANGED <<annotations, uuidCount, nonAnnVars>>

StartEditAnnotation(p, id) ==
  LET i == FindIndex(annotations[p], id) IN
  /\ editState' = IF i = 0 THEN editState
                  ELSE [editState EXCEPT ![p] = EditEditState(annotations[p][i])]
  /\ target' = IF i = 0 THEN target ELSE [target EXCEPT ![p] = <<"edit", id, 0>>]
  /\ lastOp' = Op("startEditAnnotation", p, IF i = 0 THEN "missing" ELSE "found",
                  EditKind(p))
  /\ UNCHANGED <<annotations, uuidCount, nonAnnVars>>

\* the branch submitAnnotation takes
SubmitMode(p) ==
  LET es == editState[p] IN
  IF es.annotationId # Null
    THEN (IF es.annotationId \in Ids(annotations[p]) THEN "update" ELSE "updateMissing")
    ELSE IF es.lineNumber # Null THEN "create" ELSE "none"

SubmitAnnotation(p, type, content) ==
  LET es == editState[p] IN
  /\ IF es.annotationId # Null
       THEN /\ annotations' = [annotations EXCEPT
                                 ![p] = MapUpdate(@, es.annotationId, type, content)]
            /\ UNCHANGED uuidCount
       ELSE IF es.lineNumber # Null
         THEN /\ uuidCount < MaxUuid
              /\ uuidCount' = uuidCount + 1
              /\ annotations' = [annotations EXCEPT
                                   ![p] = Append(@, NewAnnotation(p, es, type, content,
                                                                  uuidCount + 1, uuidCount + 1))]
         ELSE UNCHANGED <<annotations, uuidCount>>
  /\ editState' = [editState EXCEPT ![p] = NoEdit]
  /\ target' = [target EXCEPT ![p] = NoTarget]
  /\ lastOp' = Op("submitAnnotation", p, SubmitMode(p), EditKind(p))
  /\ UNCHANGED nonAnnVars

\* mutant: cancel leaves the edit state as it is
CancelEditKeepsState(p) ==
  /\ lastOp' = Op("cancelEdit", p, "-", EditKind(p))
  /\ UNCHANGED <<editState, target, annotations, uuidCount, nonAnnVars>>

CancelEdit(p) ==
  /\ editState' = [editState EXCEPT ![p] = NoEdit]
  /\ target' = [target EXCEPT ![p] = NoTarget]
  /\ lastOp' = Op("cancelEdit", p, "-", EditKind(p))
  /\ UNCHANGED <<annotations, uuidCount, nonAnnVars>>

\* mutant: one annotation list shared by the two panels
DeleteAnnotationShared(p, id) ==
  /\ annotations' = [q \in Panels |-> FilterOut(annotations[q], id)]
  /\ lastOp' = Op("deleteAnnotation", p, "-", EditKind(p))
  /\ UNCHANGED <<editState, target, uuidCount, nonAnnVars>>

DeleteAnnotation(p, id) ==
  /\ annotations' = [annotations EXCEPT ![p] = FilterOut(@, id)]
  /\ lastOp' = Op("deleteAnnotation", p, "-", EditKind(p))
  /\ UNCHANGED <<editState, target, uuidCount, nonAnnVars>>

\* ------------------------------------------------------------ annotate gutter
\* The click handler of createAnnotateGutter: a non-empty selection over two
\* different lines gives the ordered pair, anything else the clicked line.
GutterArgs(clicked, hasSelection, startLine, endLine) ==
  IF hasSelection /\ startLine # endLine
    THEN IF startLine < endLine THEN <<startLine, endLine>> ELSE <<endLine, startLine>>
    ELSE <<clicked, Undefined>>

\* onLineClick is the panel's startAnnotation (page.tsx, ProsePanel)
GutterClick(p, clicked, hasSelection, startLine, endLine) ==
  LET args == GutterArgs(clicked, hasSelection, startLine, endLine) IN
  StartAnnotation(p, args[1], args[2])

\* ------------------------------------------------- page handlers (annotations)
\* handleSend / handleNew: both hooks get setAllAnnotations([]); the edit
\* states are not touched
ClearAnnotations ==
  /\ annotations' = [p \in Panels |-> <<>>]
  /\ lastOp' = Op("setAllAnnotations", "-", "-", "-")
  /\ UNCHANGED <<editState, target, uuidCount, nonAnnVars>>

\* One hook instance (panel A) with every line argument of the model, and the
\* page handlers that clear it.
Next ==
  \/ \E s \in Lines, e \in Lines \cup {Undefined} : StartAnnotation("A", s, e)
  \/ \E c \in Lines, h \in BOOLEAN, s \in Lines, e \in Lines :
       s <= e /\ GutterClick("A", c, h, s, e)
  \/ \E id \in 1..MaxUuid : StartEditAnnotation("A", id)
  \/ \E tc \in SubmitInputs : SubmitAnnotation("A", tc[1], tc[2])
  \/ CancelEdit("A")
  \/ \E id \in 1..MaxUuid : DeleteAnnotation("A", id)
  \/ ClearAnnotations

Spec == Init /\ [][Next]_vars

\* The two hook instances of the page (annA, annB) under every interleaving;
\* the line arguments are one single line and one range.
PanelStarts == {<<1, Undefined>>, <<1, MaxLine>>}

PanelsNext ==
  \/ \E p \in Panels, a \in PanelStarts : StartAnnotation(p, a[1], a[2])
  \/ \E p \in Panels, h \in BOOLEAN : GutterClick(p, 1, h, 1, MaxLine)
  \/ \E p \in Panels, id \in 1..MaxUuid : StartEditAnnotation(p, id)
  \/ \E p \in Panels, tc \in SubmitInputs : SubmitAnnotation(p, tc[1], tc[2])
  \/ \E p \in Panels : CancelEdit(p)
  \/ \E p \in Panels, id \in 1..MaxUuid : DeleteAnnotation(p, id)
  \/ ClearAnnotations

SpecPanels == Init /\ [][PanelsNext]_vars

\* ---------------------------------------------------------------- word diff
\* Texts are sequences of one-character strings over Chars, of length <= MaxLen.
MaxLen == 3
Chars == {"a", "b", " ", "\n"}
Whitespace == {" ", "\n"}

RECURSIVE StringsUpTo(_)
StringsUpTo(n) ==
  IF n = 0 THEN {<<>>}
  ELSE LET shorter == StringsUpTo(n - 1) IN
       shorter \cup {Append(s, c) : s \in {t \in shorter : Len(t) = n - 1}, c \in Chars}

Texts == StringsUpTo(MaxLen)

IsSpace(tok) == \A i \in 1..Len(tok) : tok[i] \in Whitespace

\* tokens.join(''): the concatenation of a sequence of strings
RECURSIVE Join(_)
Join(toks) == IF toks = <<>> THEN <<>> ELSE Head(toks) \o Join(Tail(toks))

\* diffWords' tokens: maximal runs of word characters and maximal runs of whitespace
RECURSIVE Tokenize(_)
Tokenize(s) ==
  IF s = <<>> THEN <<>>
  ELSE LET rest == Tokenize(Tail(s)) IN
       IF rest # <<>> /\ ((Head(s) \in Whitespace) <=> (Head(rest)[1] \in Whitespace))
         THEN <<(<<Head(s)>> \o Head(rest))>> \o Tail(rest)
         ELSE <<(<<Head(s)>>)>> \o rest

\* diffWords compares tokens ignoring whitespace: two whitespace tokens are equal
TokenEquals(left, right) == left = right \/ (IsSpace(left) /\ IsSpace(right))

\* length of a longest common subsequence of two token sequences under TokenEquals
RECURSIVE LcsLen(_, _)
LcsLen(x, y) ==
  IF x = <<>> \/ y = <<>> THEN 0
  ELSE IF TokenEquals(Head(x), Head(y)) THEN 1 + LcsLen(Tail(x), Tail(y))
  ELSE LET d == LcsLen(Tail(x), y)
           i == LcsLen(x, Tail(y))
       IN IF d >= i THEN d ELSE i

\* a shortest edit script from x to y, one entry per token; a kept token carries
\* the token of the new text (y)
RECURSIVE EditScript(_, _)
EditScript(x, y) ==
  IF x = <<>> /\ y = <<>> THEN <<>>
  ELSE IF x = <<>> THEN <<[kind |-> "added", tok |-> Head(y)]>> \o EditScript(x, Tail(y))
  ELSE IF y = <<>> THEN <<[kind |-> "removed", tok |-> Head(x)]>> \o EditScript(Tail(x), y)
  ELSE IF TokenEquals(Head(x), Head(y))
    THEN <<[kind |-> "common", tok |-> Head(y)]>> \o EditScript(Tail(x), Tail(y))
  ELSE IF LcsLen(Tail(x), y) >= LcsLen(x, Tail(y))
    THEN <<[kind |-> "removed", tok |-> Head(x)]>> \o EditScript(Tail(x), y)
    ELSE <<[kind |-> "added", tok |-> Head(y)]>> \o EditScript(x, Tail(y))

\* the tokens of one kind in the change region at the head of a script (the
\* entries before the first kept token)
RECURSIVE RegionTokens(_, _)
RegionTokens(script, kind) ==
  IF script = <<>> \/ Head(script).kind = "common" THEN <<>>
  ELSE (IF Head(script).kind = kind THEN <<Head(script).tok>> ELSE <<>>)
         \o RegionTokens(Tail(script), kind)

RECURSIVE RunLength(_, _)
RunLength(script, isCommon) ==
  IF script = <<>> \/ ((Head(script).kind = "common") # isCommon) THEN 0
  ELSE 1 + RunLength(Tail(script), isCommon)

\* mutant: one change object per token, runs are not merged
ComponentsPerToken(script) ==
  [i \in 1..Len(script) |->
     [value |-> script[i].tok,
      added |-> script[i].kind = "added",
      removed |-> script[i].kind = "removed"]]

\* the change objects of diffWords: each run of kept tokens is one change with
\* the joined tokens of the new text, each change region one removed change (if
\* any token was removed) followed by one added change (if any was added)
RECURSIVE Components(_)
Components(script) ==
  IF script = <<>> THEN <<>>
  ELSE IF Head(script).kind = "common"
    THEN LET n == RunLength(script, TRUE) IN
         <<[value |-> Join([i \in 1..n |-> script[i].tok]),
            added |-> FALSE, removed |-> FALSE]>>
           \o Components(SubSeq(script, n + 1, Len(script)))
    ELSE LET n == RunLength(script, FALSE)
             del == RegionTokens(script, "removed")
             ins == RegionTokens(script, "added")
         IN (IF del = <<>> THEN <<>>
             ELSE <<[value |-> Join(del), added |-> FALSE, removed |-> TRUE]>>)
            \o (IF ins = <<>> THEN <<>>
                ELSE <<[value |-> Join(ins), added |-> TRUE, removed |-> FALSE]>>)
            \o Components(SubSeq(script, n + 1, Len(script)))

\* diffWords(oldStr, newStr) of the diff package; two texts without tokens give
\* one kept change with the empty value
DiffWords(oldStr, newStr) ==
  LET script == EditScript(Tokenize(oldStr), Tokenize(newStr)) IN
  IF script = <<>> THEN <<[value |-> <<>>, added |-> FALSE, removed |-> FALSE]>>
  ELSE Components(script)

\* mutant: a kept change is pushed to segmentsA only
RECURSIVE SegmentsForCommonOnlyA(_, _)
SegmentsForCommonOnlyA(changes, panel) ==
  IF changes = <<>> THEN <<>>
  ELSE LET change == Head(changes)
           rest == SegmentsForCommonOnlyA(Tail(changes), panel)
       IN IF change.added
            THEN (IF panel = "B" THEN <<[text |-> change.value, type |-> "added"]>> ELSE <<>>)
                   \o rest
          ELSE IF change.removed
            THEN (IF panel = "A" THEN <<[text |-> change.value, type |-> "removed"]>> ELSE <<>>)
                   \o rest
          ELSE (IF panel = "A" THEN <<[text |-> change.value, type |-> "common"]>> ELSE <<>>)
                 \o rest

\* the loop of computeWordDiff for one panel: the changes that panel receives
RECURSIVE SegmentsFor(_, _)
SegmentsFor(changes, panel) ==
  IF changes = <<>> THEN <<>>
  ELSE LET change == Head(changes)
           rest == SegmentsFor(Tail(changes), panel)
       IN IF change.added
            THEN (IF panel = "B" THEN <<[text |-> change.value, type |-> "added"]>> ELSE <<>>)
                   \o rest
          ELSE IF change.removed
            THEN (IF panel = "A" THEN <<[text |-> change.value, type |-> "removed"]>> ELSE <<>>)
                   \o rest
          ELSE <<[text |-> change.value, type |-> "common"]>> \o rest

ComputeWordDiffResult(a, b) ==
  LET changes == DiffWords(a, b) IN
  [segmentsA |-> SegmentsFor(changes, "A"), segmentsB |-> SegmentsFor(changes, "B")]

DiffInit ==
  /\ AnnIdle
  /\ PdfIdle
  /\ AuxIdle
  /\ ScrollIdle
  /\ PageIdle
  /\ textA \in Texts
  /\ textB \in Texts
  /\ diffResult = <<>>

ComputeWordDiff ==
  /\ diffResult = <<>>
  /\ diffResult' = <<ComputeWordDiffResult(textA, textB)>>
  /\ UNCHANGED <<textA, textB, nonDiffVars>>

DiffNext == ComputeWordDiff

SpecDiff == DiffInit /\ [][DiffNext]_vars

\* ------------------------------------------------ diff mode: scroll sync
\* The two scroll containers of diff mode and the effect's handlers
\* handleScrollA / handleScrollB. Heights and positions are whole pixels; the
\* ratio arithmetic is exact, and the browser stores a written scrollTop
\* snapped to a whole pixel (snapMode) and clamped to the scrollable range.
ClientHeight == 2
MaxRange == 3
MaxUserScrolls == 2

\* el.scrollHeight - el.clientHeight
ScrollRange(p) == scrollHeight[p] - ClientHeight

\* n || 1
OrOne(n) == IF n = 0 THEN 1 ELSE n

\* the whole pixel the browser stores for num / den (num >= 0, den > 0)
Snap(num, den) ==
  IF snapMode = "round" THEN (2 * num + den) \div (2 * den) ELSE num \div den

\* the browser clamps scrollTop to 0..range
Clamp(v, range) == IF v < 0 THEN 0 ELSE IF v > range THEN range ELSE v

\* mutant: the target position is the source position, not the same ratio
SyncTargetSamePixel(x) == Clamp(scrollTop[x], ScrollRange(Other(x)))

\* what the handler of x leaves in the other element's scrollTop:
\*   ratio = elX.scrollTop / (rangeX || 1);  elY.scrollTop = ratio * (rangeY || 1)
SyncTarget(x) ==
  Clamp(Snap(scrollTop[x] * OrOne(ScrollRange(Other(x))), OrOne(ScrollRange(x))),
        ScrollRange(Other(x)))

ScrollInit ==
  /\ AnnIdle
  /\ PdfIdle
  /\ AuxIdle
  /\ DiffIdle
  /\ PageIdle
  /\ scrollTop = [p \in Panels |-> 0]
  /\ scrollHeight \in [Panels -> ClientHeight..(ClientHeight + MaxRange)]
  /\ diffSyncing = FALSE
  /\ pending = [p \in Panels |-> "none"]
  /\ running = "-"
  /\ snapMode \in {"round", "trunc"}
  /\ userScrolls = 0
  /\ lastScroll = [op |-> "init", panel |-> "-", echo |-> FALSE, user |-> <<"-", 0>>]

\* the user scrolls panel p to position t; the browser queues a scroll event
UserScroll(p, t) ==
  /\ running = "-"
  /\ userScrolls < MaxUserScrolls
  /\ t \in 0..ScrollRange(p)
  /\ t # scrollTop[p]
  /\ scrollTop' = [scrollTop EXCEPT ![p] = t]
  /\ pending' = [pending EXCEPT ![p] = "user"]
  /\ userScrolls' = userScrolls + 1
  /\ lastScroll' = [op |-> "user", panel |-> p, echo |-> FALSE, user |-> <<p, t>>]
  /\ UNCHANGED <<scrollHeight, diffSyncing, running, snapMode, nonScrollVars>>

\* handleScrollX delivered with the flag clear: sets the flag and writes the
\* other element's scrollTop; a write that changes the position queues a scroll
\* event on that element
HandleScroll(x) ==
  /\ pending[x] # "none"
  /\ running = "-"
  /\ ~diffSyncing
  /\ diffSyncing' = TRUE
  /\ scrollTop' = [scrollTop EXCEPT ![Other(x)] = SyncTarget(x)]
  /\ pending' = [pending EXCEPT
                   ![x] = "none",
                   ![Other(x)] = IF SyncTarget(x) # scrollTop[Other(x)] THEN "sync" ELSE @]
  /\ running' = x
  /\ lastScroll' = [lastScroll EXCEPT !.op = "handled", !.panel = x,
                                      !.echo = (pending[x] = "sync")]
  /\ UNCHANGED <<scrollHeight, snapMode, userScrolls, nonScrollVars>>

\* handleScrollX delivered while the other handler has the flag set (the event
\* dispatched before that handler returned): returns at once
HandleScrollSuppressed(x) ==
  /\ pending[x] # "none"
  /\ running = Other(x)
  /\ diffSyncing
  /\ pending' = [pending EXCEPT ![x] = "none"]
  /\ lastScroll' = [lastScroll EXCEPT !.op = "suppressed", !.panel = x,
                                      !.echo = (pending[x] = "sync")]
  /\ UNCHANGED <<scrollTop, scrollHeight, diffSyncing, running, snapMode, userScrolls,
                 nonScrollVars>>

\* the last statement of the handler: diffSyncing.current = false
HandleScrollReturn(x) ==
  /\ running = x
  /\ diffSyncing' = FALSE
  /\ running' = "-"
  /\ lastScroll' = [lastScroll EXCEPT !.op = "returned", !.panel = x, !.echo = FALSE]
  /\ UNCHANGED <<scrollTop, scrollHeight, pending, snapMode, userScrolls, nonScrollVars>>

ScrollDeliver ==
  \/ \E x \in Panels : HandleScroll(x)
  \/ \E x \in Panels : HandleScrollSuppressed(x)
  \/ \E x \in Panels : HandleScrollReturn(x)

ScrollNext ==
  \/ \E p \in Panels, t \in 0..MaxRange : UserScroll(p, t)
  \/ ScrollDeliver

\* the browser delivers every queued scroll event and a running handler returns
SpecScroll == ScrollInit /\ [][ScrollNext]_vars /\ WF_vars(ScrollDeliver)

\* ------------------------------------------------------- page (Home) handlers
MaxInflight == 2
MaxSaved == 1

Prompts == {"", " ", "p1"}
\* !prompt.trim()
IsBlank(v) == v \in {"", " "}

PageTexts == {<<"a">>, <<"a", " ", "b">>}
ErrorMessages == {"boom"}
\* what /api/generate answers for one panel: a text or a (truthy) error
PanelAnswers == {TextResult(t) : t \in PageTexts} \cup {ErrorResult(m) : m \in ErrorMessages}

\* isPanelOutput: "text" in result
IsPanelOutput(r) == r.kind = "text"

PanelResultToOutput(r) ==
  IF r = NullResult THEN NullOutput
  ELSE IF IsPanelOutput(r) THEN [kind |-> "output", text |-> r.text, error |-> NoError]
  ELSE [kind |-> "output", text |-> <<>>, error |-> r.error]

\* mutant: an outputToPanelResult that never looks at the error field
OutputToPanelResultTextOnly(o) ==
  IF o = NullOutput THEN NullResult ELSE TextResult(o.text)

OutputToPanelResult(o) ==
  IF o = NullOutput THEN NullResult
  ELSE IF o.error # NoError /\ o.error # "" THEN ErrorResult(o.error)
  ELSE TextResult(o.text)

\* mutant: any two results count, errors included
HasBothOutputsNonNull(res) == res["A"] # NullResult /\ res["B"] # NullResult

HasBothOutputs(res) ==
  /\ res["A"] # NullResult
  /\ IsPanelOutput(res["A"])
  /\ res["B"] # NullResult
  /\ IsPanelOutput(res["B"])

\* the diffResult memo of a render: null (<<>>) unless diff mode is on and both
\* results are outputs, else computeWordDiff of the two results' texts
DiffMemo(res, show) ==
  IF ~show \/ ~HasBothOutputs(res) THEN <<>>
  ELSE <<[a |-> res["A"], b |-> res["B"]]>>

\* diffSegments={diffResult?.segmentsA} / segmentsB: what a panel is handed
DiffSegmentsProp(p) ==
  IF diffMemo = <<>> THEN <<>>
  ELSE LET d == ComputeWordDiffResult(diffMemo[1].a.text, diffMemo[1].b.text)
       IN <<(IF p = "A" THEN d.segmentsA ELSE d.segmentsB)>>

\* buildComparison with the id it uses (timestamps and name are left out)
BuildComparison(id) ==
  [id |-> id,
   prompt |-> prompt,
   outputA |-> PanelResultToOutput(result["A"]),
   outputB |-> PanelResultToOutput(result["B"]),
   annotationsA |-> annotations["A"],
   annotationsB |-> annotations["B"]]

\* typing in the prompt textarea, which is disabled while isLoading
SetPrompt(v) ==
  /\ ~isLoading
  /\ v # prompt
  /\ prompt' = v
  /\ UNCHANGED <<isLoading, result, inflight, showDiff, comparisonId, comparisons,
                 diffMemo, pdfExport, sessionVars, domVars, annVars, nonPageVars>>

\* The body of AnnotatedPanelDisplay: the branch of its conditional that a
\* render with these props takes (isLoading, result, diffSegments)
BodyBranch(loading, r, memo) ==
  IF loading THEN "loading"
  ELSE IF r.kind = "error" /\ r.error # "" THEN "error"
  ELSE IF memo # <<>> /\ r.kind = "text" THEN "diff"
  ELSE IF r.kind = "text" THEN "prose"
  ELSE "empty"

\* a body in which every branch is an element of its own
HostTagPerBranch(branch) == branch

\* the element each branch renders: all five are an unkeyed <div> in the same
\* place of the panel, which React updates in place as one DOM node
HostTag(branch) ==
  CASE branch = "loading" -> "div"
    [] branch = "error" -> "div"
    [] branch = "diff" -> "div"
    [] branch = "prose" -> "div"
    [] branch = "empty" -> "div"

\* the panels replaced by a commit: those whose body changes its element type
Replaced ==
  {p \in Panels :
     HostTag(BodyBranch(isLoading', result'[p], diffMemo'))
       # HostTag(BodyBranch(isLoading, result[p], diffMemo))}

\* bodyScrollRef.current after the commit: the body node when it is the diff
\* body (the only branch with ref={bodyScrollRef}), else null
RefAfter(p) ==
  IF BodyBranch(isLoading', result'[p], diffMemo') = "diff" THEN bodyEl'[p] ELSE Null

\* The render and commit that follow a state update of the page, with the
\* scroll-sync effect, whose only dependency is showDiff: its cleanup removes
\* the listeners from the nodes it captured, then it adds them to the current
\* ref nodes when showDiff is on and both refs are set.
Commit(op) ==
  /\ nextEl' = nextEl + Cardinality(Replaced)
  /\ bodyEl' = [p \in Panels |->
                  IF p \notin Replaced THEN bodyEl[p]
                  ELSE nextEl + Cardinality({q \in Replaced : q = "A" \/ q = p})]
  /\ LET cleaned == IF effectEls = <<>> THEN listeners
                               ELSE listeners \ {effectEls[1], effectEls[2]}
     IN IF showDiff' = showDiff
          THEN UNCHANGED <<listeners, effectEls>>
          ELSE IF showDiff' /\ RefAfter("A") # Null /\ RefAfter("B") # Null
            THEN /\ listeners' = cleaned \cup {RefAfter("A"), RefAfter("B")}
                 /\ effectEls' = <<RefAfter("A"), RefAfter("B")>>
            ELSE /\ listeners' = cleaned
                 /\ effectEls' = <<>>
  /\ diffKept' = IF showDiff' # showDiff THEN "none"
                 ELSE IF showDiff /\ op \in {"send", "load"} THEN op
                 ELSE diffKept

\* a request leaves the requests in flight when its fetch settles
RemoveAt(s, i) == SubSeq(s, 1, i - 1) \o SubSeq(s, i + 1, Len(s))

\* hasContent: resultA !== null || resultB !== null
HasContent == result["A"] # NullResult \/ result["B"] # NullResult

\* handleSend, up to the first await of dispatch
HandleSend ==
  /\ ~IsBlank(prompt)
  /\ ~isLoading
  /\ inflight < MaxInflight
  /\ comparisonId' = Null
  /\ annotations' = [p \in Panels |-> <<>>]
  /\ isLoading' = TRUE
  /\ result' = [p \in Panels |-> NullResult]
  /\ inflight' = inflight + 1
  /\ sent' = Append(sent, prompt)
  /\ dispatchPrompt' = <<prompt>>
  /\ expected' = <<>>
  /\ diffMemo' = DiffMemo(result', showDiff)
  /\ UNCHANGED <<prompt, showDiff, comparisons, pdfExport, editState, uuidCount, target,
                 lastOp, nonPageVars>>
  /\ Commit("send")

\* dispatch after the response: both results are set
DispatchResolve(i, ra, rb) ==
  /\ inflight > 0
  /\ i \in 1..Len(sent)
  /\ inflight' = inflight - 1
  /\ sent' = RemoveAt(sent, i)
  /\ isLoading' = FALSE
  /\ dispatchPrompt' = <<sent[i]>>
  /\ result' = [p \in Panels |-> IF p = "A" THEN ra ELSE rb]
  /\ diffMemo' = DiffMemo(result', showDiff)
  /\ UNCHANGED <<prompt, showDiff, comparisonId, comparisons, pdfExport, expected, annVars,
                 nonPageVars>>
  /\ Commit("resolve")

\* dispatch's catch branch: the results are kept
DispatchReject(i) ==
  /\ inflight > 0
  /\ i \in 1..Len(sent)
  /\ inflight' = inflight - 1
  /\ sent' = RemoveAt(sent, i)
  /\ isLoading' = FALSE
  /\ UNCHANGED <<prompt, result, showDiff, comparisonId, comparisons, diffMemo, pdfExport,
                 dispatchPrompt, expected, annVars, nonPageVars>>
  /\ Commit("reject")

\* prev.findIndex((c) => c.id === id), 1-based; 0 for -1
FindSaved(saved, id) ==
  IF \E i \in 1..Len(saved) : saved[i].id = id
    THEN CHOOSE i \in 1..Len(saved) :
           saved[i].id = id /\ \A j \in 1..(i - 1) : saved[j].id # id
    ELSE 0

\* a saveComparison that keeps the stored annotations in front of the new ones
SaveComparisonMerging(saved, c) ==
  IF FindSaved(saved, c.id) > 0
    THEN [saved EXCEPT ![FindSaved(saved, c.id)] =
            [c EXCEPT !.annotationsA = @ \o saved[FindSaved(saved, c.id)].annotationsA]]
    ELSE saved \o <<c>>
\* saveComparison: replace the first entry with the same id in place, else prepend
SaveComparison(saved, c) ==
  IF FindSaved(saved, c.id) > 0
    THEN [saved EXCEPT ![FindSaved(saved, c.id)] = c]
    ELSE <<c>> \o saved

HandleSave ==
  /\ HasContent
  /\ IF comparisonId # Null
       THEN /\ comparisons' = SaveComparison(comparisons, BuildComparison(comparisonId))
            /\ Len(comparisons') <= MaxSaved
            /\ UNCHANGED <<comparisonId, uuidCount>>
       ELSE /\ uuidCount < MaxUuid
            /\ Len(comparisons) < MaxSaved
            /\ uuidCount' = uuidCount + 1
            /\ comparisonId' = uuidCount + 1
            /\ comparisons' = SaveComparison(comparisons, BuildComparison(uuidCount + 1))
  /\ UNCHANGED <<prompt, isLoading, result, inflight, showDiff, diffMemo, pdfExport,
                 sessionVars, domVars, annotations, editState, target, lastOp, nonPageVars>>

HandleLoad(c) ==
  /\ comparisonId' = c.id
  /\ prompt' = c.prompt
  /\ isLoading' = FALSE
  /\ result' = [p \in Panels |->
                  OutputToPanelResult(IF p = "A" THEN c.outputA ELSE c.outputB)]
  /\ annotations' = [p \in Panels |-> IF p = "A" THEN c.annotationsA ELSE c.annotationsB]
  /\ dispatchPrompt' = <<c.prompt>>
  /\ expected' = <<result'>>
  /\ diffMemo' = DiffMemo(result', showDiff)
  /\ UNCHANGED <<inflight, sent, showDiff, comparisons, pdfExport, editState, uuidCount, target,
                 lastOp, nonPageVars>>
  /\ Commit("load")

HandleNew ==
  /\ comparisonId' = Null
  /\ prompt' = ""
  /\ isLoading' = FALSE
  /\ result' = [p \in Panels |-> NullResult]
  /\ annotations' = [p \in Panels |-> <<>>]
  /\ dispatchPrompt' = <<>>
  /\ expected' = <<result'>>
  /\ diffMemo' = DiffMemo(result', showDiff)
  /\ UNCHANGED <<inflight, sent, showDiff, comparisons, pdfExport, editState, uuidCount, target,
                 lastOp, nonPageVars>>
  /\ Commit("new")

HandleDeleteSaved(id) ==
  /\ \E i \in 1..Len(comparisons) : comparisons[i].id = id
  /\ comparisons' = SelectSeq(comparisons, LAMBDA c : c.id # id)
  /\ comparisonId' = IF comparisonId = id THEN Null ELSE comparisonId
  /\ UNCHANGED <<prompt, isLoading, result, inflight, showDiff, diffMemo, pdfExport,
                 sessionVars, domVars, annVars, nonPageVars>>

\* the Diff button: disabled unless both panels have an output
ToggleDiff ==
  /\ HasBothOutputs(result)
  /\ showDiff' = ~showDiff
  /\ diffMemo' = DiffMemo(result, showDiff')
  /\ UNCHANGED <<prompt, isLoading, result, inflight, comparisonId, comparisons, pdfExport,
                 sessionVars, annVars, nonPageVars>>
  /\ Commit("toggle")

\* handleExportPDF: pdfDiff is the rendered diffResult's segments or undefined
HandleExportPDF ==
  /\ HasContent
  /\ pdfExport' = <<diffMemo>>
  /\ UNCHANGED <<prompt, isLoading, result, inflight, showDiff, comparisonId, comparisons,
                 diffMemo, sessionVars, domVars, annVars, nonPageVars>>

PageNext ==
  \/ \E v \in Prompts : SetPrompt(v)
  \/ HandleSend
  \/ \E i \in 1..MaxInflight, ra \in PanelAnswers, rb \in PanelAnswers :
       DispatchResolve(i, ra, rb)
  \/ \E i \in 1..MaxInflight : DispatchReject(i)
  \/ HandleSave
  \/ \E i \in 1..Len(comparisons) : HandleLoad(comparisons[i])
  \/ HandleNew
  \/ \E id \in 1..MaxUuid : HandleDeleteSaved(id)
  \/ ToggleDiff
  \/ HandleExportPDF

SpecPage == Init /\ [][PageNext]_vars

\* --------------------------------------------- annotation render model
\* createSimpleAnnotationsExtension: the decorations computed for a document of
\* docLines lines. A decoration is [pos, ann, editor]: pos stands for line.to of
\* its line (line.to grows with the line number, so the line number is used),
\* ann is the annotation id (Null for the new-annotation editor), editor tells
\* an InlineAnnotationEditor from an AnnotationWidget.
MaxDocLines == 2

\* DEFAULT_ANNOTATION_DISPLAY_SETTINGS.visible; the page never changes it
SettingsVisible == TRUE

\* ann.endLineNumber ?? ann.lineNumber
DisplayLine(ann) ==
  IF ann.endLineNumber # Undefined THEN ann.endLineNumber ELSE ann.lineNumber

\* the keys of byDisplayLine in insertion order (first occurrence of each line)
RECURSIVE DisplayLineKeys(_, _)
DisplayLineKeys(anns, seen) ==
  IF anns = <<>> THEN <<>>
  ELSE IF DisplayLine(Head(anns)) \in seen THEN DisplayLineKeys(Tail(anns), seen)
  ELSE <<DisplayLine(Head(anns))>>
         \o DisplayLineKeys(Tail(anns), seen \cup {DisplayLine(Head(anns))})

\* byDisplayLine.get(displayLine): the annotations of that line in collection order
LineAnnotations(anns, displayLine) ==
  SelectSeq(anns, LAMBDA a : DisplayLine(a) = displayLine)

\* mutant: no display line is skipped
SkipDisplayLineNever(displayLine, docLines) == FALSE

\* if (displayLine < 1 || displayLine > state.doc.lines) continue
SkipDisplayLine(displayLine, docLines) == displayLine < 1 \/ displayLine > docLines

\* the decorations pushed by the loop over byDisplayLine
RECURSIVE GroupDecorations(_, _, _, _)
GroupDecorations(keys, anns, es, docLines) ==
  IF keys = <<>> THEN <<>>
  ELSE (IF SkipDisplayLine(Head(keys), docLines) THEN <<>>
        ELSE LET group == LineAnnotations(anns, Head(keys)) IN
             [i \in 1..Len(group) |->
                [pos |-> Head(keys), ann |-> group[i].id,
                 editor |-> (es.annotationId = group[i].id)]])
       \o GroupDecorations(Tail(keys), anns, es, docLines)

\* the inline editor for a new annotation, pushed last
NewEditorDecoration(es, docLines) ==
  IF es.lineNumber # Null /\ es.annotationId = Null
     /\ es.lineNumber >= 1 /\ es.lineNumber <= docLines
    THEN <<[pos |-> es.lineNumber, ann |-> Null, editor |-> TRUE]>>
    ELSE <<>>

\* mutant: an element is inserted before the elements of equal pos
InsertByPosBeforeEqual(d, sorted) ==
  LET k == Cardinality({i \in 1..Len(sorted) : sorted[i].pos < d.pos})
  IN SubSeq(sorted, 1, k) \o <<d>> \o SubSeq(sorted, k + 1, Len(sorted))

\* one step of the stable sort: d goes after every element with pos <= d.pos
InsertByPos(d, sorted) ==
  LET k == Cardinality({i \in 1..Len(sorted) : sorted[i].pos <= d.pos})
  IN SubSeq(sorted, 1, k) \o <<d>> \o SubSeq(sorted, k + 1, Len(sorted))

\* decorations.sort((a, b) => a.pos - b.pos): stable, applied to elements in
\* their push order
RECURSIVE SortByPos(_, _)
SortByPos(decs, sorted) ==
  IF decs = <<>> THEN sorted
  ELSE SortByPos(Tail(decs), InsertByPos(Head(decs), sorted))

Decorations(anns, es, docLines) ==
  IF ~SettingsVisible THEN <<>>
  ELSE SortByPos(GroupDecorations(DisplayLineKeys(anns, {}), anns, es, docLines)
                   \o NewEditorDecoration(es, docLines),
                 <<>>)

\* the hook of one panel, also called with a line below the document
RenderNext ==
  \/ Next
  \/ \E e \in Lines \cup {Undefined} : StartAnnotation("A", -1, e)

SpecRender == Init /\ [][RenderNext]_vars

\* ------------------------------------------------------- exportAsPDF layout
\* Lengths are in tenths of a millimetre, so that lineH = 3.8 mm and the
\* 0.3 / 1.5 / 3.5 mm offsets of the annotation list are whole numbers.
PageWidth == 2970
PageHeight == 2100
Margin == 120
Gap == 60
LineH == 38
ColWidth == (PageWidth - Margin * 2 - Gap) \div 2
ColAx == Margin
ColBx == Margin + ColWidth + Gap
BottomMargin == Margin + 80
\* pageHeight - bottomMargin, the limit every page-break test compares with
BottomLimit == PageHeight - BottomMargin
ColX(col) == IF col = "A" THEN ColAx ELSE ColBx

\* Inputs: wrapped line counts and token widths of the exported texts
LongPrompt == 40
LongText == 50
LongAnnotation == 60
WordWidth == 100
WideWordWidth == 700
SpaceWidth == 25

\* A text is given by what the export reads of it: the number of lines
\* doc.splitTextToSize wraps it to, and its tokens as text.split(/(\s+)/) yields
\* them: a word of a width, a run of spaces, or whitespace holding one "\n"
Word(w) == [k |-> "word", w |-> w]
Space == [k |-> "space", w |-> SpaceWidth]
Newline == [k |-> "newline", w |-> 0]
Separated(n, word, sep) == [i \in 1..(2 * n - 1) |-> IF i % 2 = 1 THEN word ELSE sep]
EmptyText == [lines |-> 0, tokens |-> <<>>]
\* n one-word lines separated by "\n"
LinesText(n) == [lines |-> n, tokens |-> Separated(n, Word(WordWidth), Newline)]
\* n wide words separated by spaces: no two of them fit one column line
WrapText(n) == [lines |-> n, tokens |-> Separated(n, Word(WideWordWidth), Space)]

PdfTexts == {LinesText(1), LinesText(LongText), WrapText(3)}
PdfOutputs == {NullOutput}
              \cup {[kind |-> "output", text |-> t, error |-> NoError] : t \in PdfTexts}
              \cup {[kind |-> "output", text |-> EmptyText, error |-> m] : m \in ErrorMessages}
\* comparison.outputX?.text is truthy
HasText(out) == out # NullOutput /\ out.text # EmptyText
HasErrorOnly(out) == out # NullOutput /\ out.text = EmptyText /\ out.error # NoError
\* an annotations array, by the number of wrapped lines of each entry
PdfAnnotations == {<<>>, <<1>>, <<2, LongAnnotation>>}

\* the page passes diffData only when both outputs have text (hasBothOutputs)
PdfInputs ==
  { in \in [promptLines : {1, LongPrompt}, outputA : PdfOutputs, outputB : PdfOutputs,
            diff : BOOLEAN, annotationsA : PdfAnnotations, annotationsB : PdfAnnotations] :
      in.diff => (HasText(in.outputA) /\ HasText(in.outputB)) }

PdfInit ==
  /\ AnnIdle
  /\ DiffIdle
  /\ ScrollIdle
  /\ PageIdle
  /\ AuxIdle
  /\ pdfInput \in {<<in>> : in \in PdfInputs}
  /\ pdfDoc = <<>>

\* a doc.text call: what it draws, its column, the page it lands on (the
\* current, last page of the document) and its baseline
NoDraw == [kind |-> "none", col |-> "-", page |-> 0, y |-> 0]
Draw(kind, col, page, cy) == [kind |-> kind, col |-> col, page |-> page, y |-> cy]

\* newPage and checkPage, on the closure variable y and the page count
newPage(d) == [d EXCEPT !.page = @ + 1, !.y = Margin]
checkPage(d, needed) ==
  IF d.y + needed > BottomLimit THEN newPage(d) ELSE d

\* exportAsPDF runs its blocks and loops in order. pdfDoc[1].pc names the block,
\* i the loop index; cx, cy, textStartY and yA are the locals of those names;
\* last is the latest doc.text call, startA / startB the first one of each
\* column's text
PdfAt(pc) == pdfDoc # <<>> /\ pdfDoc[1].pc = pc
ColumnPc(col) == IF col = "A" THEN "columnA" ELSE "columnB"
AnnotationsPc(col) == IF col = "A" THEN "annotationsA" ELSE "annotationsB"
PdfOutput(col) == IF col = "A" THEN pdfInput[1].outputA ELSE pdfInput[1].outputB
PdfAnns(col) == IF col = "A" THEN pdfInput[1].annotationsA ELSE pdfInput[1].annotationsB
Max(a, b) == IF a > b THEN a ELSE b

\* new jsPDF, title, metadata, prompt block, divider, column headers
PdfBegin ==
  /\ pdfInput # <<>>
  /\ pdfDoc = <<>>
  /\ LET promptLines == pdfInput[1].promptLines
         d1 == [y |-> Margin + 70 + 50 + 50, page |-> 1]
         d2 == checkPage(d1, promptLines * LineH + 40)
         y1 == d2.y + (promptLines * LineH + 50) + 30 + 80
     IN pdfDoc' = <<[pc |-> "columnA", y |-> y1, page |-> d2.page,
                     cx |-> ColAx + 20, cy |-> y1, i |-> 1,
                     textStartY |-> y1, yA |-> y1,
                     last |-> Draw("prompt", "-", d2.page, d2.y),
                     startA |-> NoDraw, startB |-> NoDraw]>>
  /\ UNCHANGED <<pdfInput, nonPdfVars>>

\* the first text drawn in a column
NoteStart(st, col, draw) ==
  IF col = "A" /\ st.startA = NoDraw THEN [st EXCEPT !.startA = draw, !.last = draw]
  ELSE IF col = "B" /\ st.startB = NoDraw THEN [st EXCEPT !.startB = draw, !.last = draw]
  ELSE [st EXCEPT !.last = draw]

\* renderPlainColumn: one pass of the loop over the wrapped lines
PdfPlainLine(col) ==
  /\ PdfAt(ColumnPc(col))
  /\ HasText(PdfOutput(col))
  /\ ~pdfInput[1].diff
  /\ pdfDoc[1].i <= PdfOutput(col).text.lines
  /\ LET st == pdfDoc[1]
         brk == st.cy + LineH > BottomLimit
         d1 == IF brk THEN newPage(st) ELSE st
         cy1 == IF brk THEN d1.y ELSE st.cy
     IN pdfDoc' = <<NoteStart([d1 EXCEPT !.cy = cy1 + LineH, !.i = @ + 1],
                              col, Draw("text", col, d1.page, cy1))>>
  /\ UNCHANGED <<pdfInput, nonPdfVars>>

\* renderDiffColumn: one pass of the loop over the tokens of the segments
PdfDiffToken(col) ==
  /\ PdfAt(ColumnPc(col))
  /\ HasText(PdfOutput(col))
  /\ pdfInput[1].diff
  /\ pdfDoc[1].i <= Len(PdfOutput(col).text.tokens)
  /\ LET st == pdfDoc[1]
         t == PdfOutput(col).text.tokens[st.i]
         colLeft == ColX(col) + 20
         colRight == ColX(col) + ColWidth - 20
         down == t.k = "newline" \/ (t.k = "word" /\ st.cx + t.w > colRight)
         brk == down /\ st.cy + LineH > BottomLimit
         d1 == IF brk THEN newPage(st) ELSE st
         cy1 == IF brk THEN d1.y ELSE IF down THEN st.cy + LineH ELSE st.cy
         cx1 == IF down THEN colLeft ELSE st.cx
     IN pdfDoc' = IF t.k = "newline"
                  THEN <<[d1 EXCEPT !.cx = cx1, !.cy = cy1, !.i = @ + 1]>>
                  ELSE <<NoteStart([d1 EXCEPT !.cx = cx1 + t.w, !.cy = cy1, !.i = @ + 1],
                                   col, Draw("text", col, d1.page, cy1))>>
  /\ UNCHANGED <<pdfInput, nonPdfVars>>

\* the end of a column: the value the render function returns, or the error
\* line, or nothing; after column B, y = Math.max(yA, yB) + 5
PdfColumnDone(col) ==
  /\ PdfAt(ColumnPc(col))
  /\ LET st == pdfDoc[1]
         out == PdfOutput(col)
         diff == pdfInput[1].diff
     IN /\ HasText(out) => st.i > (IF diff THEN Len(out.text.tokens) ELSE out.text.lines)
        /\ LET yCol == IF HasText(out) THEN (IF diff THEN st.cy + LineH ELSE st.cy)
                       ELSE IF HasErrorOnly(out) THEN st.textStartY + LineH
                       ELSE st.textStartY
               st1 == IF HasErrorOnly(out)
                      THEN [st EXCEPT !.last = Draw("error", col, st.page, st.textStartY)]
                      ELSE st
           IN pdfDoc' = IF col = "A"
                        THEN <<[st1 EXCEPT !.pc = "columnB", !.yA = yCol, !.i = 1,
                                           !.cx = ColBx + 20, !.cy = st.textStartY]>>
                        ELSE <<[st1 EXCEPT !.pc = "annotationsA", !.i = 0,
                                           !.y = Max(st.yA, yCol) + 50]>>
  /\ UNCHANGED <<pdfInput, nonPdfVars>>

\* renderAnnotations up to its loop: checkPage(10) and the heading
PdfAnnotationsHeading(col) ==
  /\ PdfAt(AnnotationsPc(col))
  /\ PdfAnns(col) # <<>>
  /\ pdfDoc[1].i = 0
  /\ LET d1 == checkPage(pdfDoc[1], 100)
     IN pdfDoc' = <<[d1 EXCEPT !.last = Draw("heading", col, d1.page, d1.y),
                               !.y = @ + 40, !.i = 1]>>
  /\ UNCHANGED <<pdfInput, nonPdfVars>>

\* one pass of the loop of renderAnnotations: checkPage(8), the badge, and the
\* wrapped lines of the entry in a single doc.text call from y + 0.3; last is
\* its lowest line, at the 3.5 mm pitch the code advances y by
PdfAnnotationEntry(col) ==
  /\ PdfAt(AnnotationsPc(col))
  /\ pdfDoc[1].i >= 1
  /\ pdfDoc[1].i <= Len(PdfAnns(col))
  /\ LET d1 == checkPage(pdfDoc[1], 80)
         annLines == PdfAnns(col)[pdfDoc[1].i]
     IN pdfDoc' = <<[d1 EXCEPT
                      !.last = Draw("annotation", col, d1.page, d1.y + 3 + (annLines - 1) * 35),
                      !.y = @ + annLines * 35 + 15, !.i = @ + 1]>>
  /\ UNCHANGED <<pdfInput, nonPdfVars>>

\* renderAnnotations returns: at once for an empty array, else after y += 3
PdfAnnotationsDone(col) ==
  /\ PdfAt(AnnotationsPc(col))
  /\ PdfAnns(col) # <<>> => pdfDoc[1].i > Len(PdfAnns(col))
  /\ pdfDoc' = <<[pdfDoc[1] EXCEPT
                    !.pc = IF col = "A" THEN "annotationsB" ELSE "footer",
                    !.y = IF PdfAnns(col) = <<>> THEN @ ELSE @ + 30, !.i = 0]>>
  /\ UNCHANGED <<pdfInput, nonPdfVars>>

\* footer, then doc.save
PdfFooter ==
  /\ PdfAt("footer")
  /\ LET d1 == checkPage(pdfDoc[1], 80)
     IN pdfDoc' = <<[d1 EXCEPT !.pc = "saved",
                               !.last = Draw("footer", "-", d1.page, PageHeight - Margin)]>>
  /\ UNCHANGED <<pdfInput, nonPdfVars>>

PdfNext ==
  \/ PdfBegin
  \/ \E col \in Panels : PdfPlainLine(col)
  \/ \E col \in Panels : PdfDiffToken(col)
  \/ \E col \in Panels : PdfColumnDone(col)
  \/ \E col \in Panels : PdfAnnotationsHeading(col)
  \/ \E col \in Panels : PdfAnnotationEntry(col)
  \/ \E col \in Panels : PdfAnnotationsDone(col)
  \/ PdfFooter

SpecPdf == PdfInit /\ [][PdfNext]_vars

\* --------------------------------------------------------------- exportAsText
\* ANNOTATION_PREFIXES of the export utilities
\* (a code is the sequence of its characters)
ExportPrefixes ==
  [observation |-> <<"O", "B", "S">>, question |-> <<"Q">>, metaphor |-> <<"M", "E", "T">>,
   pattern |-> <<"P", "A", "T">>, context |-> <<"C", "T", "X">>, critique |-> <<"C", "R", "T">>]

\* a stored output whose text field is absent (undefined)
OutputWithoutText(m) == [kind |-> "output", error |-> m]
TextOutputs ==
  {NullOutput}
  \cup {PanelResultToOutput(r) : r \in PanelAnswers}
  \cup {[kind |-> "output", text |-> <<>>, error |-> NoError]}
  \cup {OutputWithoutText(m) : m \in ErrorMessages}

\* comparison.outputX?.text and comparison.outputX?.error as conditions
TextTruthy(out) == out # NullOutput /\ "text" \in DOMAIN out /\ out.text # <<>>
ErrorTruthy(out) == out # NullOutput /\ out.error # NoError /\ out.error # ""

TextAnnotationLists ==
  {<<>>}
  \cup {<<NewAnnotation("A", StartEditState(1, e), ANNOTATION_TYPES[t], "c1", 1, 1)>> :
          t \in DOMAIN ANNOTATION_TYPES, e \in {Undefined, MaxLine}}

TextComparisons ==
  [id : {1}, prompt : {"p1"}, outputA : TextOutputs, outputB : TextOutputs,
   annotationsA : TextAnnotationLists, annotationsB : {<<>>}]

\* formatAnnotationsText: "" for an empty array, else the heading and one line
\* per annotation, joined
FormatAnnotationsText(anns) ==
  IF anns = <<>> THEN [line |-> "empty"]
  ELSE [line |-> "annotations",
        entries |-> [i \in DOMAIN anns |->
                       [prefix |-> ExportPrefixes[anns[i].type],
                        lineNumber |-> anns[i].lineNumber,
                        endLineNumber |-> anns[i].endLineNumber,
                        content |-> anns[i].content]]]

\* the lines pushed between the rule under a panel's header and its annotations
PanelBodyUnguarded(p, out) ==
  IF out = NullOutput THEN <<>>
  ELSE <<[line |-> "body", panel |-> p,
          text |-> IF "text" \in DOMAIN out THEN out.text ELSE <<"undefined">>]>>
PanelBody(p, out) ==
  IF TextTruthy(out) THEN <<[line |-> "body", panel |-> p, text |-> out.text]>>
  ELSE IF ErrorTruthy(out) THEN <<[line |-> "error", panel |-> p, message |-> out.error]>>
  ELSE <<>>

\* the header, the rule, the body, the annotations and the blank line of a panel
PanelLines(p, out, anns) ==
  <<[line |-> "header", panel |-> p, provenance |-> out # NullOutput],
    [line |-> "dash", panel |-> p]>>
  \o PanelBody(p, out)
  \o <<FormatAnnotationsText(anns), [line |-> "empty"]>>

ExportAsTextLines(c) ==
  <<[line |-> "bar"], [line |-> "title"], [line |-> "bar"], [line |-> "name"],
    [line |-> "created"], [line |-> "prompt", prompt |-> c.prompt], [line |-> "empty"]>>
  \o PanelLines("A", c.outputA, c.annotationsA)
  \o PanelLines("B", c.outputB, c.annotationsB)
  \o <<[line |-> "bar"], [line |-> "footer"]>>

TextInit ==
  /\ AnnIdle
  /\ DiffIdle
  /\ ScrollIdle
  /\ PageIdle
  /\ PdfIdle
  /\ LoadIdle
  /\ FanIdle
  /\ StoreIdle
  /\ BadgeIdle
  /\ TripIdle
  /\ textInput \in {<<c>> : c \in TextComparisons}
  /\ textLines = <<>>

ExportAsText ==
  /\ textInput # <<>>
  /\ textLines = <<>>
  /\ textLines' = <<ExportAsTextLines(textInput[1])>>
  /\ UNCHANGED <<textInput, nonTextVars>>

TextNext == ExportAsText

SpecText == TextInit /\ [][TextNext]_vars

\* ------------------------------------------ handleLoad of a stored comparison
\* loadComparisons returns JSON.parse(stored) as it is, so a comparison written
\* by another version or by hand may lack fields. A JavaScript value that may be
\* undefined is [value |-> v] or [undefined |-> TRUE].
Defined(v) == [value |-> v]
UndefinedValue == [undefined |-> TRUE]
IsDefined(x) == "value" \in DOMAIN x
\* comparison.f
Field(c, f) == IF f \in DOMAIN c THEN Defined(c[f]) ELSE UndefinedValue

\* the partial records over one optional field
Optional(f, values) == {<<>>} \cup {f :> v : v \in values}
StoredOutputs == {NullOutput} \cup {PanelResultToOutput(r) : r \in PanelAnswers}
StoredAnnotations ==
  {<<>>, <<NewAnnotation("A", StartEditState(1, Undefined), "pattern", "c1", 1, 1)>>}
StoredComparisons ==
  { [id |-> 1, prompt |-> "p1"] @@ oa @@ ob @@ aa @@ ab :
      oa \in Optional("outputA", StoredOutputs), ob \in Optional("outputB", StoredOutputs),
      aa \in Optional("annotationsA", StoredAnnotations),
      ab \in Optional("annotationsB", StoredAnnotations) }

\* outputToPanelResult(comparison.outputX): !output is true of undefined
OutputFieldToPanelResult(x) ==
  IF IsDefined(x) THEN OutputToPanelResult(x.value) ELSE NullResult

\* the state of useAnnotations after setAllAnnotations(comparison.annotationsX)
SetAllAnnotations(x) == x

LoadInit ==
  /\ AnnIdle
  /\ DiffIdle
  /\ ScrollIdle
  /\ PageIdle
  /\ PdfIdle
  /\ TextIdle
  /\ FanIdle
  /\ StoreIdle
  /\ BadgeIdle
  /\ TripIdle
  /\ stored \in {<<c>> : c \in StoredComparisons}
  /\ loaded = <<>>

\* handleLoad(stored comparison)
HandleLoadStored ==
  /\ stored # <<>>
  /\ loaded = <<>>
  /\ LET c == stored[1]
     IN loaded' =
          <<[annotations |-> [A |-> SetAllAnnotations(Field(c, "annotationsA")),
                              B |-> SetAllAnnotations(Field(c, "annotationsB"))],
             result |-> [A |-> OutputFieldToPanelResult(Field(c, "outputA")),
                         B |-> OutputFieldToPanelResult(Field(c, "outputB"))],
             threw |-> {}, done |-> {}]>>
  /\ UNCHANGED <<stored, nonLoadVars>>

\* an operation on the loaded state; it throws a TypeError when it reads
\* .length of an annotations value that is undefined
LoadedOp(op, reads) ==
  /\ loaded # <<>>
  /\ op \notin loaded[1].done
  /\ loaded' = <<[loaded[1] EXCEPT
        !.done = @ \cup {op},
        !.threw = IF \E p \in reads : ~IsDefined(loaded[1].annotations[p])
                  THEN @ \cup {op} ELSE @]>>
  /\ UNCHANGED <<stored, nonLoadVars>>

\* AnnotatedPanelDisplay renders panel p: ann.annotations.length in its header
RenderLoaded(p) == LoadedOp(IF p = "A" THEN "renderA" ELSE "renderB", {p})
\* handleSave: buildComparison and saveComparison copy the values, reading nothing
HandleSaveLoaded == LoadedOp("save", {})
\* handleExportText: formatAnnotationsText(annotations) reads annotations.length
HandleExportTextLoaded == LoadedOp("exportText", Panels)

LoadNext ==
  \/ HandleLoadStored
  \/ \E p \in Panels : RenderLoaded(p)
  \/ HandleSaveLoaded
  \/ HandleExportTextLoaded

SpecLoad == LoadInit /\ [][LoadNext]_vars

\* ------------------------------------------------------------ fanOutGenerate
MaxResponseTime == 3
\* what generateAIResponse resolves with
Generated == [text : PageTexts, responseTimeMs : 1..MaxResponseTime]
\* what it rejects with: an Error with a message, an Error with an empty
\* message, or a reason that is undefined
Reasons == {[message |-> "boom"], [message |-> ""], [undefined |-> TRUE]}
Outcomes ==
  {[status |-> "fulfilled", value |-> v] : v \in Generated}
  \cup {[status |-> "rejected", reason |-> r] : r \in Reasons}

\* resultX.reason?.message || "Panel X generation failed"
ReasonMessage(p, reason) ==
  IF "message" \in DOMAIN reason /\ reason.message # "" THEN reason.message
  ELSE IF p = "A" THEN "Panel A generation failed" ELSE "Panel B generation failed"

\* the A / B field of the returned object
PanelOfSettled(p, outcome) ==
  IF outcome.status = "fulfilled" THEN outcome.value
  ELSE [error |-> ReasonMessage(p, outcome.reason)]

\* Promise.all in place of Promise.allSettled: one rejection rejects the whole
FanOutAll(s) ==
  IF \E p \in Panels : s[p].status = "rejected"
  THEN [status |-> "rejected"]
  ELSE [status |-> "fulfilled", value |-> [p \in Panels |-> PanelOfSettled(p, s[p])]]
\* how the promise of fanOutGenerate settles once both calls have settled
FanOut(s) ==
  [status |-> "fulfilled", value |-> [p \in Panels |-> PanelOfSettled(p, s[p])]]

\* the call for panel p settles; the two calls run in parallel
Settle(p, outcome) ==
  /\ settled[p] = Pending
  /\ settled' = [settled EXCEPT ![p] = outcome]
  /\ UNCHANGED <<fanOut, nonFanVars>>

\* await Promise.allSettled([...]) resumes and the function returns
FanOutReturn ==
  /\ \A p \in Panels : settled[p] # Pending
  /\ fanOut = <<>>
  /\ fanOut' = <<FanOut(settled)>>
  /\ UNCHANGED <<settled, nonFanVars>>

FanNext ==
  \/ \E p \in Panels, o \in Outcomes : Settle(p, o)
  \/ FanOutReturn

SpecFan == Init /\ [][FanNext]_vars

\* --------------------------------------------- useLocalStorage on its own
MaxStoreId == 3
\* the comparisons saveComparison is called with
StoreInputs ==
  [id : 1..MaxStoreId, prompt : {"p1"}, outputA : {NullOutput}, outputB : {NullOutput},
   annotationsA : StoredAnnotations, annotationsB : StoredAnnotations]

StoreSave(c) ==
  /\ comparisons' = SaveComparison(comparisons, c)
  /\ lastStore' = [op |-> "save", c |-> c, before |-> comparisons]
  /\ UNCHANGED nonStoreVars

\* deleteComparison(id)
StoreDelete(id) ==
  /\ comparisons' = SelectSeq(comparisons, LAMBDA c : c.id # id)
  /\ lastStore' = [op |-> "delete", id |-> id, before |-> comparisons]
  /\ UNCHANGED nonStoreVars

StoreNext ==
  \/ \E c \in StoreInputs : StoreSave(c)
  \/ \E id \in 1..MaxStoreId : StoreDelete(id)

SpecStore == Init /\ [][StoreNext]_vars

\* ------------------------------------------------- annotation type badges
\* ANNOTATION_PREFIXES of the on-screen widgets
ScreenPrefixes ==
  [observation |-> <<"O", "b", "s">>, question |-> <<"Q">>, metaphor |-> <<"M", "e", "t">>,
   pattern |-> <<"P", "a", "t">>, context |-> <<"C", "t", "x">>, critique |-> <<"C", "r", "i", "t">>]
\* ANNOTATION_COLORS: "#rrggbb" per theme, written without the "#"
ScreenColors ==
  [observation |-> [light |-> <<"2", "5", "6", "3", "e", "b">>, dark |-> <<"6", "0", "a", "5", "f", "a">>],
   question |-> [light |-> <<"d", "9", "7", "7", "0", "6">>, dark |-> <<"f", "b", "b", "f", "2", "4">>],
   metaphor |-> [light |-> <<"9", "3", "3", "3", "e", "a">>, dark |-> <<"c", "0", "8", "4", "f", "c">>],
   pattern |-> [light |-> <<"1", "6", "a", "3", "4", "a">>, dark |-> <<"4", "a", "d", "e", "8", "0">>],
   context |-> [light |-> <<"6", "4", "7", "4", "8", "b">>, dark |-> <<"9", "4", "a", "3", "b", "8">>],
   critique |-> [light |-> <<"8", "b", "2", "9", "4", "2">>, dark |-> <<"c", "5", "5", "a", "7", "5">>]]
\* ANNOTATION_PDF_COLORS
PdfColors ==
  [observation |-> <<96, 165, 250>>,
   question |-> <<251, 191, 36>>,
   metaphor |-> <<192, 132, 252>>,
   pattern |-> <<74, 222, 128>>,
   context |-> <<148, 163, 184>>,
   critique |-> <<157, 78, 89>>]

\* getAnnotationColor
GetAnnotationColor(type, isDark) ==
  IF isDark THEN ScreenColors[type].dark ELSE ScreenColors[type].light

\* the value of a hexadecimal digit, and of "rrggbb" as <<r, g, b>>
HexDigits == <<"0", "1", "2", "3", "4", "5", "6", "7", "8", "9", "a", "b", "c", "d", "e", "f">>
HexDigit(ch) == (CHOOSE i \in DOMAIN HexDigits : HexDigits[i] = ch) - 1
HexToRgb(hex) == [i \in 1..3 |-> 16 * HexDigit(hex[2 * i - 1]) + HexDigit(hex[2 * i])]

\* String.prototype.toUpperCase on the letters the codes use
Lower == <<"a", "b", "c", "d", "e", "f", "g", "h", "i", "j", "k", "l", "m", "n", "o", "p", "q", "r", "s", "t", "u", "v", "w", "x", "y", "z">>
Upper == <<"A", "B", "C", "D", "E", "F", "G", "H", "I", "J", "K", "L", "M", "N", "O", "P", "Q", "R", "S", "T", "U", "V", "W", "X", "Y", "Z">>
UpperChar(ch) ==
  IF \E i \in DOMAIN Lower : Lower[i] = ch
  THEN Upper[CHOOSE i \in DOMAIN Lower : Lower[i] = ch] ELSE ch
ToUpperCase(str) == [i \in DOMAIN str |-> UpperChar(str[i])]

BadgeInputs ==
  [annotation : {NewAnnotation("A", StartEditState(l, e), ANNOTATION_TYPES[t], c, 1, 1) :
                   t \in DOMAIN ANNOTATION_TYPES, l \in Lines, e \in {Undefined, MaxLine},
                   c \in {"c1", "c2"}},
   isDark : BOOLEAN]

BadgeInit ==
  /\ AnnIdle
  /\ DiffIdle
  /\ ScrollIdle
  /\ PageIdle
  /\ PdfIdle
  /\ TextIdle
  /\ LoadIdle
  /\ FanIdle
  /\ StoreIdle
  /\ TripIdle
  /\ badgeInput \in {<<b>> : b \in BadgeInputs}
  /\ badges = <<>>

\* the annotation is shown by its widget and written by the text and PDF exports
DrawBadges ==
  /\ badgeInput # <<>>
  /\ badges = <<>>
  /\ LET type == badgeInput[1].annotation.type
     IN badges' = <<[screenPrefix |-> ScreenPrefixes[type],
                     screenColor |-> HexToRgb(GetAnnotationColor(type, badgeInput[1].isDark)),
                     exportPrefix |-> ExportPrefixes[type],
                     pdfColor |-> PdfColors[type]]>>
  /\ UNCHANGED <<badgeInput, nonBadgeVars>>

BadgeNext == DrawBadges

SpecBadge == BadgeInit /\ [][BadgeNext]_vars

\* ------------------------------- panelResultToOutput / outputToPanelResult
MaxTripLen == 3
TripChars == {"a", "b", " "}
\* texts of a PanelOutput, the empty text included
TripTexts == UNION {[1..n -> TripChars] : n \in 0..MaxTripLen}
\* messages of a PanelError: error is a string, "" included
TripMessages == {"", "boom", "Panel A generation failed"}
\* PanelResult | null
TripInputs ==
  {NullResult} \cup {TextResult(t) : t \in TripTexts}
               \cup {ErrorResult(m) : m \in TripMessages}

TripInit ==
  /\ AnnIdle
  /\ DiffIdle
  /\ ScrollIdle
  /\ PageIdle
  /\ PdfIdle
  /\ TextIdle
  /\ LoadIdle
  /\ FanIdle
  /\ StoreIdle
  /\ BadgeIdle
  /\ tripInput \in {<<r>> : r \in TripInputs}
  /\ tripOutput = <<>>
  /\ tripBack = <<>>

\* buildComparison: outputA: panelResultToOutput(resultA)
TripToOutput ==
  /\ tripInput # <<>>
  /\ tripOutput = <<>>
  /\ tripOutput' = <<PanelResultToOutput(tripInput[1])>>
  /\ UNCHANGED <<tripInput, tripBack, nonTripVars>>

\* handleLoad: outputToPanelResult(comparison.outputA)
TripBack ==
  /\ tripOutput # <<>>
  /\ tripBack = <<>>
  /\ tripBack' = <<OutputToPanelResult(tripOutput[1])>>
  /\ UNCHANGED <<tripInput, tripOutput, nonTripVars>>

TripNext ==
  \/ TripToOutput
  \/ TripBack

SpecTrip == TripInit /\ [][TripNext]_vars

\* ===================================================================== claims
SegmentTexts(segs) == Join([i \in 1..Len(segs) |-> segs[i].text])
CommonSegments(segs) == SelectSeq(segs, LAMBDA sg : sg.type = "common")
SegmentTypes(segs) == {segs[i].type : i \in 1..Len(segs)}

\* C1: for all strings a and b, the texts of segmentsA concatenate to a and the
\* texts of segmentsB concatenate to b (the claim as stated; the whitespace of
\* kept tokens comes from b, so it fails for a)
C1_RoundTrip ==
  diffResult # <<>> =>
    /\ SegmentTexts(diffResult[1].segmentsA) = textA
    /\ SegmentTexts(diffResult[1].segmentsB) = textB

\* C2: every annotation created by startAnnotation + submitAnnotation has
\* lineNumber >= 1 and endLineNumber undefined or >= lineNumber, for start
\* arguments in either order (the claim as stated)
C2_AnchorInvariant ==
  \A p \in Panels : \A i \in 1..Len(annotations[p]) :
    /\ annotations[p][i].lineNumber >= 1
    /\ \/ annotations[p][i].endLineNumber = Undefined
       \/ annotations[p][i].endLineNumber >= annotations[p][i].lineNumber

\* C3: submitAnnotation while editing an id of the collection changes only that
\* annotation's type and content: same length, same positions, every other
\* annotation and every other field unchanged
C3_UpdateFrame ==
  [][\A p \in Panels : \A tc \in SubmitInputs :
       (SubmitAnnotation(p, tc[1], tc[2]) /\ SubmitMode(p) = "update") =>
         LET old == annotations[p]
             new == annotations'[p]
             id == editState[p].annotationId
         IN /\ Len(new) = Len(old)
            /\ \A i \in 1..Len(old) :
                 IF old[i].id = id
                   THEN new[i] = [old[i] EXCEPT !.type = tc[1], !.content = tc[2]]
                   ELSE new[i] = old[i]
            /\ \A i \in 1..Len(old) :
                 /\ new[i].id = old[i].id
                 /\ new[i].lineNumber = old[i].lineNumber
                 /\ new[i].endLineNumber = old[i].endLineNumber
                 /\ new[i].createdAt = old[i].createdAt
            /\ annotations'[Other(p)] = annotations[Other(p)]]_vars

C3_Witness ==
  \E p \in Panels :
    /\ lastOp = Op("submitAnnotation", p, "update", "editing")
    /\ Len(annotations[p]) = 2
    /\ annotations[p][1].type = "critique"
    /\ annotations[p][1].endLineNumber # Undefined

\* C4: submitAnnotation in the creating state appends exactly one annotation,
\* with an id not in the collection, the lines given to startAnnotation and the
\* given type and content; the earlier annotations are unchanged
C4_CreateAppends ==
  [][\A p \in Panels : \A tc \in SubmitInputs :
       (SubmitAnnotation(p, tc[1], tc[2]) /\ EditKind(p) = "creating") =>
         LET old == annotations[p]
             new == annotations'[p]
         IN /\ target[p][1] = "create"
            /\ Len(new) = Len(old) + 1
            /\ SubSeq(new, 1, Len(old)) = old
            /\ new[Len(new)].id \notin Ids(old)
            /\ new[Len(new)].lineNumber = target[p][2]
            /\ new[Len(new)].endLineNumber = target[p][3]
            /\ new[Len(new)].type = tc[1]
            /\ new[Len(new)].content = tc[2]]_vars

C4_Witness ==
  \E p \in Panels :
    /\ lastOp = Op("submitAnnotation", p, "create", "creating")
    /\ Len(annotations[p]) = 2
    /\ annotations[p][2].lineNumber = 1
    /\ annotations[p][2].endLineNumber = 2

\* C5: submitAnnotation while editing an id that is no longer in the collection
\* leaves both collections as they are and returns the panel to no-edit
C5_UpdateMissingNoOp ==
  [][\A p \in Panels : \A tc \in SubmitInputs :
       (SubmitAnnotation(p, tc[1], tc[2]) /\ SubmitMode(p) = "updateMissing") =>
         /\ annotations' = annotations
         /\ editState'[p].lineNumber = Null
         /\ editState'[p].annotationId = Null]_vars

C5_Witness ==
  \E p \in Panels :
    /\ lastOp = Op("submitAnnotation", p, "updateMissing", "editing")
    /\ annotations[p] # <<>>

\* C6: submitAnnotation and cancelEdit leave the panel in the no-edit state from
\* every edit state; cancelEdit leaves the collections unchanged
C6_ReturnsToNoEdit ==
  [][\A p \in Panels :
       /\ \A tc \in SubmitInputs :
            SubmitAnnotation(p, tc[1], tc[2]) =>
              editState'[p].lineNumber = Null /\ editState'[p].annotationId = Null
       /\ CancelEdit(p) =>
            /\ editState'[p].lineNumber = Null
            /\ editState'[p].annotationId = Null
            /\ annotations' = annotations]_vars

C6_Witness ==
  \E p \in Panels :
    /\ lastOp = Op("cancelEdit", p, "-", "editing")
    /\ annotations[p] # <<>>
    /\ editState[p].lineNumber = Null

\* C7: a start call during a create or an edit replaces the edit state by the
\* new target and leaves the collections unchanged, and a later submit commits
\* the latest target only (never the abandoned line, range or id)
C7_StartReplaces ==
  [][\A p \in Panels :
       /\ \A s \in Lines : \A e \in Lines \cup {Undefined} :
            StartAnnotation(p, s, e) =>
              /\ annotations' = annotations
              /\ editState'[p].annotationId = Null
              /\ editState'[p].lineNumber = (IF e # Undefined THEN e ELSE s)
              /\ editState'[p].startLineNumber = (IF e # Undefined THEN s ELSE Undefined)
       /\ \A id \in 1..MaxUuid :
            (StartEditAnnotation(p, id) /\ id \in Ids(annotations[p])) =>
              /\ annotations' = annotations
              /\ editState'[p].annotationId = id
       /\ \A tc \in SubmitInputs :
            SubmitAnnotation(p, tc[1], tc[2]) =>
              LET old == annotations[p]
                  new == annotations'[p]
              IN CASE target[p][1] = "create" ->
                        /\ Len(new) = Len(old) + 1
                        /\ SubSeq(new, 1, Len(old)) = old
                        /\ new[Len(new)].lineNumber = target[p][2]
                        /\ new[Len(new)].endLineNumber = target[p][3]
                   [] target[p][1] = "edit" ->
                        /\ Len(new) = Len(old)
                        /\ \A i \in 1..Len(old) :
                             old[i].id # target[p][2] => new[i] = old[i]
                   [] OTHER -> new = old]_vars

C7_Witness ==
  \E p \in Panels :
    /\ lastOp = Op("startAnnotation", p, "-", "editing")
    /\ editState[p].annotationId = Null
    /\ annotations[p] # <<>>

\* C8: startEditAnnotation(id) for an id of the collection opens the editor on
\* that id with the annotation's current type and content and its display line;
\* for any other id the edit state is unchanged
C8_StartEditLoads ==
  [][\A p \in Panels : \A id \in 1..MaxUuid :
       StartEditAnnotation(p, id) =>
         IF id \in Ids(annotations[p])
           THEN \E i \in 1..Len(annotations[p]) :
                  /\ annotations[p][i].id = id
                  /\ editState'[p].annotationId = id
                  /\ editState'[p].initialType = annotations[p][i].type
                  /\ editState'[p].initialContent = annotations[p][i].content
                  /\ editState'[p].lineNumber =
                       (IF annotations[p][i].endLineNumber # Undefined
                          THEN annotations[p][i].endLineNumber
                          ELSE annotations[p][i].lineNumber)
           ELSE editState' = editState]_vars

C8_Witness ==
  \E p \in Panels : \E i \in 1..Len(annotations[p]) :
    /\ lastOp = Op("startEditAnnotation", p, "found", "none")
    /\ editState[p].annotationId = annotations[p][i].id
    /\ editState[p].initialType = "critique"
    /\ editState[p].initialContent = "c2"
    /\ annotations[p][i].createdAt = 1
    /\ uuidCount = 2

\* a step of one of the five hook operations on panel p
HookStep(p) ==
  \/ \E s \in Lines, e \in Lines \cup {Undefined} : StartAnnotation(p, s, e)
  \/ \E id \in 1..MaxUuid : StartEditAnnotation(p, id)
  \/ \E tc \in SubmitInputs : SubmitAnnotation(p, tc[1], tc[2])
  \/ CancelEdit(p)
  \/ \E id \in 1..MaxUuid : DeleteAnnotation(p, id)

\* C9: a hook operation on one panel leaves the other panel's collection and
\* edit state unchanged, and every annotation carries its panel's outputId
C9_PanelsIndependent ==
  /\ [][\A p \in Panels :
          HookStep(p) =>
            /\ annotations'[Other(p)] = annotations[Other(p)]
            /\ editState'[Other(p)] = editState[Other(p)]]_vars
  /\ [](\A i \in 1..Len(annotations["A"]) : annotations["A"][i].outputId = "panel-A")
  /\ [](\A i \in 1..Len(annotations["B"]) : annotations["B"][i].outputId = "panel-B")

C9_Witness ==
  /\ lastOp.op = "deleteAnnotation"
  /\ lastOp.panel = "A"
  /\ annotations["A"] # <<>>
  /\ annotations["B"] # <<>>
  /\ editState["B"].annotationId # Null

\* C10: segmentsA holds only common and removed segments, segmentsB only common
\* and added ones, and the common segments of both are the same sequence
C10_SegmentTypes ==
  diffResult # <<>> =>
    /\ SegmentTypes(diffResult[1].segmentsA) \subseteq {"common", "removed"}
    /\ SegmentTypes(diffResult[1].segmentsB) \subseteq {"common", "added"}
    /\ CommonSegments(diffResult[1].segmentsA) = CommonSegments(diffResult[1].segmentsB)

C10_Witness ==
  /\ diffResult # <<>>
  /\ SegmentTypes(diffResult[1].segmentsA) = {"common", "removed"}
  /\ SegmentTypes(diffResult[1].segmentsB) = {"common", "added"}
  /\ Len(CommonSegments(diffResult[1].segmentsA)) = 2

\* C11: for every non-empty x, computeWordDiff(x, x) gives on each side exactly
\* one segment, of type common, whose text is x
C11_IdenticalInput ==
  (diffResult # <<>> /\ textA = textB /\ textA # <<>>) =>
    /\ diffResult[1].segmentsA = <<[text |-> textA, type |-> "common"]>>
    /\ diffResult[1].segmentsB = <<[text |-> textA, type |-> "common"]>>

C11_Witness ==
  /\ diffResult # <<>>
  /\ textA = textB
  /\ textA = <<"a", " ", "b">>
  /\ Len(diffResult[1].segmentsA) = 1

\* C12: the scroll event produced on Y by the write of X's handler is
\* suppressed by diffSyncing: Y's handler returns without writing X's scrollTop,
\* whether the event is delivered before or after X's handler has returned (the
\* claim as stated; an event delivered after the return finds the flag clear)
C12_EchoSuppressed ==
  lastScroll.echo => lastScroll.op = "suppressed"

\* C13 as stated: after the handler of X has run, Y's ratio equals X's ratio and
\* lies in [0,1], for all heights
C13_RatioEqual ==
  lastScroll.op = "handled" =>
    LET x == lastScroll.panel
        y == Other(x)
    IN /\ scrollTop[y] * OrOne(ScrollRange(x)) = scrollTop[x] * OrOne(ScrollRange(y))
       /\ 0 <= scrollTop[y]
       /\ scrollTop[y] <= OrOne(ScrollRange(y))

\* C13 amended: after the handler of X has run, Y's ratio lies in [0,1]; a Y
\* that cannot scroll stays at 0; otherwise Y's position is less than one pixel
\* from X's ratio times Y's range, and exactly there when that is a whole pixel
C13_RatioWithinPixel ==
  lastScroll.op = "handled" =>
    LET x == lastScroll.panel
        y == Other(x)
        exact == scrollTop[x] * ScrollRange(y)
        got == scrollTop[y] * OrOne(ScrollRange(x))
    IN /\ 0 <= scrollTop[y]
       /\ scrollTop[y] <= ScrollRange(y)
       /\ ScrollRange(y) = 0 => scrollTop[y] = 0
       /\ ScrollRange(y) > 0 =>
            /\ got - exact < OrOne(ScrollRange(x))
            /\ exact - got < OrOne(ScrollRange(x))
            /\ exact % OrOne(ScrollRange(x)) = 0 => got = exact

C13_Witness ==
  /\ lastScroll.op = "handled"
  /\ lastScroll.panel = "A"
  /\ ScrollRange("A") = 3
  /\ ScrollRange("B") = 2
  /\ scrollTop["A"] = 2
  /\ scrollTop["B"] = 1

\* no scroll event is queued and no handler is running
ScrollQuiet == pending = [p \in Panels |-> "none"] /\ running = "-"

\* C14: after a single user scroll the handlers stop running and the positions
\* stop changing, with the scrolled panel still where the user put it (the claim
\* as stated; the echo handler moves the scrolled panel)
C14_ScrollSettles ==
  <>[](/\ ScrollQuiet
       /\ userScrolls = 1 => scrollTop[lastScroll.user[1]] = lastScroll.user[2])

\* C15: the diff is computed, and its segments are handed to the panels and to
\* exportAsPDF, only while diff mode is on and both current panel results are
\* successful texts; it is computed from exactly those two results
C15_DiffOnlyWithBothOutputs ==
  /\ [](diffMemo # <<>> =>
          /\ showDiff
          /\ diffMemo[1].a.kind = "text"
          /\ diffMemo[1].b.kind = "text"
          /\ diffMemo[1].a = result["A"]
          /\ diffMemo[1].b = result["B"])
  /\ [][HandleExportPDF =>
          (pdfExport'[1] # <<>> =>
             /\ showDiff
             /\ result["A"].kind = "text"
             /\ result["B"].kind = "text"
             /\ pdfExport'[1][1].a = result["A"]
             /\ pdfExport'[1][1].b = result["B"])]_vars

C15_Witness ==
  /\ showDiff
  /\ result["A"].kind = "error"
  /\ result["B"].kind = "text"
  /\ DiffSegmentsProp("A") = <<>>
  /\ pdfExport # <<>>
  /\ pdfExport[1] # <<>>

\* positions in decs of the decoration of annotation id
DecorationIndex(decs, id) == {k \in 1..Len(decs) : decs[k].ann = id}

\* C16: every annotation decoration sits at the annotation's display line
\* (endLineNumber ?? lineNumber), annotations sharing a display line are stacked
\* in collection order, and collection order is creation order
C16_RenderOrder ==
  \A p \in Panels : \A n \in 1..MaxDocLines :
    LET anns == annotations[p]
        decs == Decorations(anns, editState[p], n)
        line(a) == IF a.endLineNumber # Undefined THEN a.endLineNumber ELSE a.lineNumber
    IN /\ \A k \in 1..Len(decs) :
            decs[k].ann # Null =>
              \E i \in 1..Len(anns) : anns[i].id = decs[k].ann /\ line(anns[i]) = decs[k].pos
       /\ \A k \in 1..(Len(decs) - 1) : decs[k].pos <= decs[k + 1].pos
       /\ \A i \in 1..Len(anns) : \A j \in (i + 1)..Len(anns) :
            /\ anns[i].createdAt < anns[j].createdAt
            /\ (line(anns[i]) = line(anns[j]) /\ line(anns[i]) \in 1..n) =>
                 \E ki \in DecorationIndex(decs, anns[i].id) :
                   \E kj \in DecorationIndex(decs, anns[j].id) : ki < kj

C16_Witness ==
  /\ Len(annotations["A"]) = 2
  /\ annotations["A"][1].endLineNumber = 2
  /\ annotations["A"][2].lineNumber = 2
  /\ annotations["A"][2].endLineNumber = Undefined
  /\ annotations["A"][1].type = "critique"
  /\ lastOp = Op("submitAnnotation", "A", "update", "editing")
  /\ Len(Decorations(annotations["A"], editState["A"], 2)) = 2

LinesPerPage == (BottomLimit - Margin) \div LineH
PdfSaved == PdfAt("saved")

\* C18: every body-text line or token of a column is drawn at a baseline not
\* below pageHeight - bottomMargin, for any prompt and any panel texts in plain
\* and in diff mode, and a text of more lines than one page holds gives a
\* document of at least 2 pages (the claim as stated; renderDiffColumn draws its
\* first line at textStartY without a test, wherever the prompt block left y)
C18_BodyTextAboveLimit ==
  pdfDoc # <<>> =>
    /\ pdfDoc[1].last.kind = "text" => pdfDoc[1].last.y <= BottomLimit
    /\ (PdfSaved /\ \E col \in Panels : /\ HasText(PdfOutput(col))
                                         /\ PdfOutput(col).text.lines > LinesPerPage)
         => pdfDoc[1].page >= 2

\* C19: the text of column A and the text of column B start at the same
\* vertical position on the same page, for all lengths of the two texts (the
\* claim as stated; column B starts on the page column A ended on)
C19_ColumnsStartTogether ==
  (pdfDoc # <<>> /\ pdfDoc[1].startA # NoDraw /\ pdfDoc[1].startB # NoDraw) =>
    /\ pdfDoc[1].startA.y = pdfDoc[1].startB.y
    /\ pdfDoc[1].startA.page = pdfDoc[1].startB.page

\* C20: every line of every annotation entry is drawn above the bottom limit
\* pageHeight - bottomMargin of its page, for content of any length (the claim
\* as stated; checkPage(8) reserves 8 mm whatever the entry's line count)
C20_AnnotationsAboveLimit ==
  (pdfDoc # <<>> /\ pdfDoc[1].last.kind = "annotation") =>
    pdfDoc[1].last.y <= BottomLimit

\* the lines exportAsText pushed for panel p between its rule and its annotations
TextBodyOf(p) ==
  SelectSeq(textLines[1], LAMBDA l : l.line \in {"body", "error"} /\ l.panel = p)
TextOutputOf(p) == IF p = "A" THEN textInput[1].outputA ELSE textInput[1].outputB
\* the index of the rule line under panel p's header
DashIndex(p) ==
  CHOOSE i \in DOMAIN textLines[1] : textLines[1][i].line = "dash" /\ textLines[1][i].panel = p

\* C21: for a panel whose output has an error message and no text (empty or
\* absent), exportAsText emits exactly one [Error: <message>] line, directly
\* after the rule under the panel's header, and no body-text line; for a null
\* output it emits neither
C21_ErrorLine ==
  textLines # <<>> =>
    \A p \in Panels :
      LET out == TextOutputOf(p) IN
        /\ (out # NullOutput /\ ErrorTruthy(out) /\ ~TextTruthy(out)) =>
              /\ TextBodyOf(p) = <<[line |-> "error", panel |-> p, message |-> out.error]>>
              /\ textLines[1][DashIndex(p) + 1] = TextBodyOf(p)[1]
        /\ out = NullOutput => TextBodyOf(p) = <<>>

C21_Witness ==
  /\ textLines # <<>>
  /\ textInput[1].outputA = OutputWithoutText("boom")
  /\ textInput[1].outputB = NullOutput
  /\ Len(TextBodyOf("A")) = 1

\* C22: after loading a saved comparison, a missing annotationsA / annotationsB
\* leaves that panel's collection an empty list, a missing outputA / outputB
\* gives a null panel result, and no later render, save or export throws (the
\* claim as stated; setAllAnnotations stores the undefined value as it is)
C22_MissingFieldsDefaulted ==
  loaded # <<>> =>
    /\ \A p \in Panels :
          /\ (IF p = "A" THEN "annotationsA" ELSE "annotationsB") \notin DOMAIN stored[1]
               => loaded[1].annotations[p] = Defined(<<>>)
          /\ (IF p = "A" THEN "outputA" ELSE "outputB") \notin DOMAIN stored[1]
               => loaded[1].result[p] = NullResult
    /\ loaded[1].threw = {}

\* C23: for every combination of success and failure of the two provider
\* calls, fanOutGenerate fulfils (never rejects) and its A / B field is the
\* text and response time of that panel's own call if it succeeded, and an
\* error message and no text if it failed, whatever the other call did
C23_FanOutIndependent ==
  fanOut # <<>> =>
    /\ fanOut[1].status = "fulfilled"
    /\ \A p \in Panels :
          IF settled[p].status = "fulfilled"
          THEN fanOut[1].value[p] = settled[p].value
          ELSE /\ DOMAIN fanOut[1].value[p] = {"error"}
               /\ fanOut[1].value[p].error # ""
               /\ ("message" \in DOMAIN settled[p].reason /\ settled[p].reason.message # "")
                    => fanOut[1].value[p].error = settled[p].reason.message

C23_Witness ==
  /\ fanOut # <<>>
  /\ settled["A"].status = "rejected"
  /\ settled["B"].status = "fulfilled"
  /\ fanOut[1].value["B"] = settled["B"].value

\* the positions of the stored entries with the id
SavedAt(saved, id) == {i \in 1..Len(saved) : saved[i].id = id}

\* C24: after saveComparison(c), whatever saves and deletes came before, the
\* stored list has exactly one entry with id c.id, with c's annotation arrays
\* and nothing of the arrays stored before; an entry that existed keeps its
\* position, a new one is first, and every other entry is unchanged
C24_SaveReplaces ==
  lastStore.op = "save" =>
    LET c == lastStore.c
        before == lastStore.before
    IN /\ Cardinality(SavedAt(comparisons, c.id)) = 1
       /\ \A i \in SavedAt(comparisons, c.id) :
             /\ comparisons[i].annotationsA = c.annotationsA
             /\ comparisons[i].annotationsB = c.annotationsB
       /\ IF SavedAt(before, c.id) # {}
          THEN /\ Len(comparisons) = Len(before)
               /\ SavedAt(comparisons, c.id) = SavedAt(before, c.id)
               /\ \A j \in 1..Len(before) : before[j].id # c.id => comparisons[j] = before[j]
          ELSE /\ comparisons[1].id = c.id
               /\ Tail(comparisons) = before

\* an entry with annotations, stored second of three, was saved again with none
C24_Witness ==
  /\ lastStore.op = "save"
  /\ Len(lastStore.before) = MaxStoreId
  /\ lastStore.before[2].id = lastStore.c.id
  /\ lastStore.before[2].annotationsA # <<>>
  /\ lastStore.c.annotationsA = <<>>
  /\ comparisons[2].annotationsA = <<>>

\* C25: for each annotation type the prefix code of the exports is the code of
\* the on-screen widget, compared ignoring letter case, and the PDF badge
\* colour is the RGB value of the type's on-screen colour, in the light or in
\* the dark theme (the claim as stated; the two tables of critique differ)
C25_BadgesConsistent ==
  badges # <<>> =>
    LET type == badgeInput[1].annotation.type IN
      /\ ToUpperCase(badges[1].exportPrefix) = ToUpperCase(badges[1].screenPrefix)
      /\ badges[1].pdfColor \in {HexToRgb(ScreenColors[type].light),
                                  HexToRgb(ScreenColors[type].dark)}

\* C26: the results that handleLoad(c) or handleNew set (those of c, or none)
\* stay the panel results until the user sends a new prompt; a dispatch that
\* was started earlier and is answered afterwards does not replace them
C26_ResultsStayWithComparison ==
  expected # <<>> => result = expected[1]

\* C29: the comparison that handleSave builds and stores has as its prompt the
\* prompt of usePromptDispatch's state, which is the prompt whose dispatch
\* produced the results or the prompt of the loaded comparison, whatever the
\* prompt input holds by then
C29_SavedPromptIsDispatched ==
  [][HandleSave =>
       /\ dispatchPrompt # <<>>
       /\ comparisons'[FindSaved(comparisons', comparisonId')].prompt = dispatchPrompt[1]]_vars

\* C27: in every state of a panel's hook, an edit state that is editing
\* (annotationId non-null) names an annotation of the panel's collection and
\* has a pending line
C27_EditedAnnotationExists ==
  \A p \in Panels :
    editState[p].annotationId # Null =>
      /\ editState[p].annotationId \in Ids(annotations[p])
      /\ editState[p].lineNumber # Null

\* the body of panel p as displayed
Body(p) == BodyBranch(isLoading, result[p], diffMemo)

\* C28: whenever both panels display diff-rendered text, the scroll listeners
\* are on the two body nodes now displayed and each handler writes to the
\* other panel's displayed body, also after a send or a load with diff mode
\* left on; when diff mode is off no node has a scroll listener
C28_HandlersOnDisplayedBodies ==
  /\ (\A p \in Panels : Body(p) = "diff") =>
        /\ effectEls = <<bodyEl["A"], bodyEl["B"]>>
        /\ {bodyEl["A"], bodyEl["B"]} \subseteq listeners
  /\ ~showDiff => listeners = {}

\* diff mode was on when a prompt was sent, stayed on, and both panels show
\* the diff of the new outputs
C28_Witness ==
  /\ showDiff
  /\ diffKept = "send"
  /\ \A p \in Panels : Body(p) = "diff"

====
